---- MODULE Spec2Model ----
(***************************************************************************)
(* SoloBoss AI server: the relational store (users, ai_agents, tasks,     *)
(* documents, chat_messages, activity_log) and the handlers that read and *)
(* write it.  A handler is a function of (store, clock, caller, input)    *)
(* that yields the new table, the thrown error (if any) and the value it  *)
(* resolves with; one action per handler applies it to the store and      *)
(* records the outcome in `last`.                                         *)
(*                                                                         *)
(* No handler writes more than one table and the handlers modelled here   *)
(* read only the table they write (plus users / ai_agents), so a          *)
(* behaviour works on the one table named by `scope`; the behaviours of   *)
(* the four scopes together are the behaviours analysed.                   *)
(***************************************************************************)
EXTENDS Integers, Sequences, FiniteSets, TLC

\* ---------------------------------------------------------------- bounds
\* the clock stops advancing at MaxTime
MaxTime == 2
\* the last day the dashboard specification lets the clock reach
MaxDay == 10

\* -------------------------------------------------- values and input sets
\* SQL NULL / JavaScript null
NULL == "null"
\* JavaScript undefined: a key absent from the input object
UNSET == "undefined"
\* an optional numeric argument that was not passed
Omitted == -1

\* rows of usersTable (user creation is outside the handlers)
UserIds == {"u1", "u2"}
\* caller ids handed to the handlers: "u0" matches no user row
Callers == UserIds \cup {"u0"}

\* ids randomUUID() can produce for each table
TaskIds == {"k1", "k2"}
DocumentIds == {"d1", "d2"}
ChatIds == {"m1", "m2", "m3", "m4"}
ActivityIds == {"l1", "l2", "l3"}

Scopes == {"tasks", "documents", "chat", "activity"}

\* the error a handler rejects with: its message and the id the message embeds
NoError == [msg |-> "none", id |-> "none"]
Error(m, i) == [msg |-> m, id |-> i]

VARIABLES
  users,         \* set of user ids (usersTable.id)
  profiles,      \* user id -> the other columns of its usersTable row
  aiAgents,      \* set of agent rows (aiAgentsTable)
  tasks,         \* set of task rows (tasksTable)
  documents,     \* set of document rows (documentsTable)
  chatMessages,  \* set of chat rows (chatMessagesTable)
  activityLog,   \* set of activity rows (activityLogTable)
  now,           \* the clock read by new Date() and defaultNow()
  scope,         \* the table this behaviour works on
  last,          \* the last handler call: its arguments and its outcome
  calls          \* the handler calls in flight, one per connection: position and locals

vars == <<users, profiles, aiAgents, tasks, documents, chatMessages, activityLog, now, scope, last,
          calls>>

\* the outcome of a handler call
Outcome(op, user, id, arg, limit, r) ==
  [op |-> op, user |-> user, id |-> id, arg |-> arg, limit |-> limit,
   err |-> r.err, flag |-> r.flag, rows |-> r.rows]

\* what a handler yields: the table after it, the error, the boolean and the rows it returns
Result(table, err, flag, rows) ==
  [table |-> table, err |-> err, flag |-> flag, rows |-> rows]

\* the connections that run handler calls side by side
Procs == {"p", "q"}

\* a connection with no call on it: `pc` is the statement the call runs next, `t` the
\* value its new Date() returned, `seen` the number of write statements executed by
\* then, `matched` the row count of its write statement, `wrote` the rank of that
\* statement among the write statements executed so far, `between` the number of write
\* statements executed between the call's first count of tasksTable and its latest,
\* `ids` the uuids it drew
NotStarted ==
  [op |-> "none", user |-> "none", input |-> "none", pc |-> "idle", t |-> Omitted,
   seen |-> 0, between |-> 0, matched |-> Omitted, wrote |-> 0, ids |-> <<>>, err |-> NoError,
   flag |-> FALSE, rows |-> <<>>]
NoCalls == [p \in Procs |-> NotStarted]

\* ------------------------------------------------------------- SQL helpers
\* mutant of OrderByCreatedAtDesc: ORDER BY created_at ASC
RECURSIVE OrderByCreatedAtAsc(_)
OrderByCreatedAtAsc(S) ==
  IF S = {} THEN {<<>>}
  ELSE UNION {{<<r>> \o rest : rest \in OrderByCreatedAtAsc(S \ {r})} :
                r \in {x \in S : \A y \in S : x.created_at <= y.created_at}}

\* ORDER BY created_at DESC: every order the store may return (rows with equal
\* created_at come in any order)
RECURSIVE OrderByCreatedAtDesc(_)
OrderByCreatedAtDesc(S) ==
  IF S = {} THEN {<<>>}
  ELSE UNION {{<<r>> \o rest : rest \in OrderByCreatedAtDesc(S \ {r})} :
                r \in {x \in S : \A y \in S : x.created_at >= y.created_at}}

\* mutant of Limit: the LIMIT clause is left out
LimitDropped(seq, n) == seq

\* LIMIT n
Limit(seq, n) == SubSeq(seq, 1, IF n < Len(seq) THEN n ELSE Len(seq))

\* mutant of OnDeleteCascade: the referencing rows are left in place
OnDeleteKeep(T, userId) == T

\* references(() => usersTable.id, { onDelete: 'cascade' }): what is left of a
\* referencing table when the user row is deleted
OnDeleteCascade(T, userId) == {r \in T : r.user_id # userId}

\* mutant of ForeignKeyOk: the column references nothing
ForeignKeyDropped(userId) == TRUE

\* the foreign key user_id -> users.id
ForeignKeyOk(userId) == userId \in users

\* ------------------------------------------------------------------ tasks
\* createTask(userId, input): one INSERT ... RETURNING with a fresh uuid
createTask(T, t, userId, input, uuid) ==
  LET row == [id |-> uuid, user_id |-> userId, title |-> input.title,
              description |-> input.description, status |-> "pending",
              priority |-> input.priority, due_date |-> input.due_date,
              created_at |-> t, updated_at |-> t]
  IN IF ~ForeignKeyOk(userId)
       THEN Result(T, Error("violates foreign key constraint", "none"), FALSE, <<>>)
       ELSE Result(T \cup {row}, NoError, FALSE, <<row>>)

\* mutant of ApplyTaskUpdate: the nullable keys are tested for truthiness, so an
\* explicit null is not written
ApplyTaskUpdateTruthy(r, input, t) ==
  [r EXCEPT !.updated_at = t,
            !.title = IF input.title # UNSET THEN input.title ELSE @,
            !.description = IF input.description \notin {UNSET, NULL} THEN input.description ELSE @,
            !.status = IF input.status # UNSET THEN input.status ELSE @,
            !.priority = IF input.priority # UNSET THEN input.priority ELSE @,
            !.due_date = IF input.due_date \notin {UNSET, NULL} THEN input.due_date ELSE @]

\* mutant of ApplyTaskUpdate: the whole row is written, status as the insert default
\* when the input does not name it
ApplyTaskUpdateWholeRow(r, input, t) ==
  [r EXCEPT !.updated_at = t,
            !.title = IF input.title # UNSET THEN input.title ELSE @,
            !.description = IF input.description # UNSET THEN input.description ELSE @,
            !.status = IF input.status # UNSET THEN input.status ELSE "pending",
            !.priority = IF input.priority # UNSET THEN input.priority ELSE @,
            !.due_date = IF input.due_date # UNSET THEN input.due_date ELSE @]

\* mutant of ApplyTaskUpdate: updated_at is left out of updateData
ApplyTaskUpdateStale(r, input, t) ==
  [r EXCEPT !.title = IF input.title # UNSET THEN input.title ELSE @,
            !.description = IF input.description # UNSET THEN input.description ELSE @,
            !.status = IF input.status # UNSET THEN input.status ELSE @,
            !.priority = IF input.priority # UNSET THEN input.priority ELSE @,
            !.due_date = IF input.due_date # UNSET THEN input.due_date ELSE @]

\* the .set(updateData) of updateTask applied to one row
ApplyTaskUpdate(r, input, t) ==
  [r EXCEPT !.updated_at = t,
            !.title = IF input.title # UNSET THEN input.title ELSE @,
            !.description = IF input.description # UNSET THEN input.description ELSE @,
            !.status = IF input.status # UNSET THEN input.status ELSE @,
            !.priority = IF input.priority # UNSET THEN input.priority ELSE @,
            !.due_date = IF input.due_date # UNSET THEN input.due_date ELSE @]

\* mutant of TaskMatches: the owner is left out of the WHERE clause
TaskMatchesAnyOwner(r, id, userId) == r.id = id

\* WHERE id = :id AND user_id = :userId on tasksTable
TaskMatches(r, id, userId) == r.id = id /\ r.user_id = userId

\* updateTask(userId, input): SELECT, throw when empty, UPDATE ... RETURNING
updateTask(T, t, userId, input) ==
  LET existingTask == {r \in T : TaskMatches(r, input.id, userId)}
      updated == {ApplyTaskUpdate(r, input, t) : r \in existingTask}
  IN IF existingTask = {}
       THEN Result(T, Error("Task not found or access denied", "none"), FALSE, <<>>)
       ELSE Result((T \ existingTask) \cup updated, NoError, FALSE,
                   <<CHOOSE r \in updated : TRUE>>)

\* mutant of deleteTask: the rowCount of the DELETE is not looked at
deleteTaskAlwaysTrue(T, userId, taskId) ==
  LET deleted == {r \in T : TaskMatches(r, taskId, userId)}
  IN Result(T \ deleted, NoError, TRUE, <<>>)

\* deleteTask(userId, taskId): one DELETE, true when rowCount > 0
deleteTask(T, userId, taskId) ==
  LET deleted == {r \in T : TaskMatches(r, taskId, userId)}
  IN Result(T \ deleted, NoError, Cardinality(deleted) > 0, <<>>)

\* getTasks(userId): the owner's rows, newest first (one result per admissible order)
getTasks(T, userId) ==
  {Result(T, NoError, FALSE, seq) : seq \in OrderByCreatedAtDesc({r \in T : r.user_id = userId})}

\* -------------------------------------------------------------- documents
\* createDocument(userId, input): SELECT the user, throw when missing, INSERT ... RETURNING
createDocument(T, t, userId, input, uuid) ==
  LET userExists == {u \in users : u = userId}
      row == [id |-> uuid, user_id |-> userId, name |-> input.name,
              description |-> input.description, file_url |-> input.file_url,
              file_type |-> input.file_type, file_size |-> input.file_size,
              folder_path |-> input.folder_path, created_at |-> t, updated_at |-> t]
  IN IF userExists = {}
       THEN Result(T, Error("User with ID not found", userId), FALSE, <<>>)
       ELSE Result(T \cup {row}, NoError, FALSE, <<row>>)

\* mutant of ApplyDocumentUpdate: absent nullable keys default to null, as in the
\* placeholder handler (input.description || null, input.folder_path || null)
ApplyDocumentUpdateDefaults(r, input, t) ==
  [r EXCEPT !.updated_at = t,
            !.name = IF input.name # UNSET THEN input.name ELSE @,
            !.description = IF input.description # UNSET THEN input.description ELSE NULL,
            !.folder_path = IF input.folder_path # UNSET THEN input.folder_path ELSE NULL]

\* the .set(updateData) of updateDocument applied to one row
ApplyDocumentUpdate(r, input, t) ==
  [r EXCEPT !.updated_at = t,
            !.name = IF input.name # UNSET THEN input.name ELSE @,
            !.description = IF input.description # UNSET THEN input.description ELSE @,
            !.folder_path = IF input.folder_path # UNSET THEN input.folder_path ELSE @]

\* WHERE id = :id AND user_id = :userId on documentsTable
DocumentMatches(r, id, userId) == r.id = id /\ r.user_id = userId

\* mutant of updateDocument: a row of another owner is reported as forbidden, a missing
\* row as not found
updateDocumentTellsApart(T, t, userId, input) ==
  LET matched == {r \in T : DocumentMatches(r, input.id, userId)}
      result == {ApplyDocumentUpdate(r, input, t) : r \in matched}
  IN IF result = {}
       THEN IF \E r \in T : r.id = input.id
              THEN Result(T, Error("Document access denied", "none"), FALSE, <<>>)
              ELSE Result(T, Error("Document not found", "none"), FALSE, <<>>)
       ELSE Result((T \ matched) \cup result, NoError, FALSE, <<CHOOSE r \in result : TRUE>>)

\* updateDocument(userId, input): one UPDATE ... RETURNING, throw when it returned no row
updateDocument(T, t, userId, input) ==
  LET matched == {r \in T : DocumentMatches(r, input.id, userId)}
      result == {ApplyDocumentUpdate(r, input, t) : r \in matched}
  IN IF result = {}
       THEN Result(T, Error("Document not found or access denied", "none"), FALSE, <<>>)
       ELSE Result((T \ matched) \cup result, NoError, FALSE, <<CHOOSE r \in result : TRUE>>)

\* deleteDocument(userId, documentId): SELECT, false when empty, DELETE, rowCount > 0
deleteDocument(T, userId, documentId) ==
  LET existingDocument == {r \in T : DocumentMatches(r, documentId, userId)}
      deleted == {r \in T : DocumentMatches(r, documentId, userId)}
  IN IF Cardinality(existingDocument) = 0
       THEN Result(T, NoError, FALSE, <<>>)
       ELSE Result(T \ deleted, NoError, Cardinality(deleted) > 0, <<>>)

\* mutant of DocumentConditions: the folder filter is tested for truthiness, so null
\* filters nothing
DocumentConditionsTruthy(r, userId, folderPath) ==
  /\ r.user_id = userId
  /\ folderPath \notin {UNSET, NULL} => r.folder_path = folderPath

\* mutant of DocumentConditions: with a folder filter, only the last condition pushed
\* reaches the WHERE clause
DocumentConditionsLastOnly(r, userId, folderPath) ==
  IF folderPath = UNSET THEN r.user_id = userId
  ELSE IF folderPath = NULL THEN r.folder_path = NULL ELSE r.folder_path = folderPath

\* the conditions array of getDocuments, ANDed
DocumentConditions(r, userId, folderPath) ==
  /\ r.user_id = userId
  /\ folderPath # UNSET =>
       IF folderPath = NULL THEN r.folder_path = NULL ELSE r.folder_path = folderPath

\* mutant of getDocuments: an omitted folderPath defaults to null (the root folder)
getDocumentsDefaultRoot(T, userId, folderPath) ==
  {Result(T, NoError, FALSE, seq) :
     seq \in OrderByCreatedAtDesc(
       {r \in T : DocumentConditions(r, userId, IF folderPath = UNSET THEN NULL ELSE folderPath)})}

\* getDocuments(userId, folderPath?): filtered rows, newest first
getDocuments(T, userId, folderPath) ==
  {Result(T, NoError, FALSE, seq) :
     seq \in OrderByCreatedAtDesc({r \in T : DocumentConditions(r, userId, folderPath)})}

\* ------------------------------------------------------------------- chat
\* the responses table of generateAIResponse
ResponsePool(specialization) ==
  CASE specialization = "productivity" ->
         {"I can help you organize your tasks and improve your workflow.",
          "Let me suggest some productivity techniques that might work for you.",
          "Have you considered breaking this down into smaller, manageable steps?"}
    [] specialization = "document" ->
         {"I can help you organize and manage your documents effectively.",
          "Would you like me to suggest a better filing system for your documents?",
          "I can assist with document formatting and organization."}
    [] OTHER ->
         {"I'm here to help you with whatever you need.",
          "Let me think about the best way to assist you with that.",
          "That's an interesting question. Let me provide some guidance."}

\* generateAIResponse(userMessage, specialization): the values Math.random() can select
generateAIResponse(userMessage, specialization) == ResponsePool(specialization)

\* mutant of sendMessage: the user row is saved before the agent is looked at
sendMessageSavesFirst(T, t1, t2, userId, input, uuids, aiResponse) ==
  LET userExists == {u \in users : u = userId}
      agent == {a \in aiAgents : a.id = input.agent_id}
      userRow == [id |-> uuids[1], user_id |-> userId, agent_id |-> input.agent_id,
                  message |-> input.message, response |-> NULL,
                  is_user_message |-> TRUE, created_at |-> t1]
      aiRow == [id |-> uuids[2], user_id |-> userId, agent_id |-> input.agent_id,
                message |-> input.message, response |-> aiResponse,
                is_user_message |-> FALSE, created_at |-> t2]
  IN IF userExists = {}
       THEN Result(T, Error("User with id not found", userId), FALSE, <<>>)
     ELSE IF agent = {}
       THEN Result(T, Error("AI agent with id not found", input.agent_id), FALSE, <<>>)
     ELSE IF ~(CHOOSE a \in agent : TRUE).is_active
       THEN Result(T \cup {userRow}, Error("AI agent with id is not active", input.agent_id),
                   FALSE, <<>>)
     ELSE Result(T \cup {userRow, aiRow}, NoError, FALSE, <<aiRow>>)

\* mutant of sendMessage: the row of the first INSERT is returned
sendMessageReturnsUserRow(T, t1, t2, userId, input, uuids, aiResponse) ==
  LET userExists == {u \in users : u = userId}
      agent == {a \in aiAgents : a.id = input.agent_id}
      userRow == [id |-> uuids[1], user_id |-> userId, agent_id |-> input.agent_id,
                  message |-> input.message, response |-> NULL,
                  is_user_message |-> TRUE, created_at |-> t1]
      aiRow == [id |-> uuids[2], user_id |-> userId, agent_id |-> input.agent_id,
                message |-> input.message, response |-> aiResponse,
                is_user_message |-> FALSE, created_at |-> t2]
  IN IF userExists = {}
       THEN Result(T, Error("User with id not found", userId), FALSE, <<>>)
     ELSE IF agent = {}
       THEN Result(T, Error("AI agent with id not found", input.agent_id), FALSE, <<>>)
     ELSE IF ~(CHOOSE a \in agent : TRUE).is_active
       THEN Result(T, Error("AI agent with id is not active", input.agent_id), FALSE, <<>>)
     ELSE Result(T \cup {userRow, aiRow}, NoError, FALSE, <<userRow>>)

\* sendMessage(userId, input): two SELECTs, then the INSERT of the user row at t1 and
\* the INSERT ... RETURNING of the agent row at t2; uuids = <<userMessageId, aiMessageId>>
sendMessage(T, t1, t2, userId, input, uuids, aiResponse) ==
  LET userExists == {u \in users : u = userId}
      agent == {a \in aiAgents : a.id = input.agent_id}
      userRow == [id |-> uuids[1], user_id |-> userId, agent_id |-> input.agent_id,
                  message |-> input.message, response |-> NULL,
                  is_user_message |-> TRUE, created_at |-> t1]
      aiRow == [id |-> uuids[2], user_id |-> userId, agent_id |-> input.agent_id,
                message |-> input.message, response |-> aiResponse,
                is_user_message |-> FALSE, created_at |-> t2]
  IN IF userExists = {}
       THEN Result(T, Error("User with id not found", userId), FALSE, <<>>)
     ELSE IF agent = {}
       THEN Result(T, Error("AI agent with id not found", input.agent_id), FALSE, <<>>)
     ELSE IF ~(CHOOSE a \in agent : TRUE).is_active
       THEN Result(T, Error("AI agent with id is not active", input.agent_id), FALSE, <<>>)
     ELSE Result(T \cup {userRow, aiRow}, NoError, FALSE, <<aiRow>>)

\* the default of the limit parameter of getChatHistory
DefaultChatLimit == 50

\* getChatHistory(userId, agentId, limit = 50)
getChatHistory(T, userId, agentId, limit) ==
  LET n == IF limit = Omitted THEN DefaultChatLimit ELSE limit
  IN {Result(T, NoError, FALSE, Limit(seq, n)) :
        seq \in OrderByCreatedAtDesc({r \in T : r.user_id = userId /\ r.agent_id = agentId})}

\* --------------------------------------------------------------- activity
\* logActivity(userId, action, description, entityType?, entityId?): one INSERT ... RETURNING
logActivity(T, t, userId, input, uuid) ==
  LET row == [id |-> uuid, user_id |-> userId, action |-> input.action,
              description |-> input.description,
              entity_type |-> IF input.entityType = UNSET THEN NULL ELSE input.entityType,
              entity_id |-> IF input.entityId \in {UNSET, ""} THEN NULL ELSE input.entityId,
              created_at |-> t]
  IN IF ~ForeignKeyOk(userId)
       THEN Result(T, Error("violates foreign key constraint", "none"), FALSE, <<>>)
       ELSE Result(T \cup {row}, NoError, FALSE, <<row>>)

\* the default of the limit parameter of getRecentActivity
DefaultActivityLimit == 20

\* getRecentActivity(userId, limit = 20)
getRecentActivity(T, userId, limit) ==
  LET n == IF limit = Omitted THEN DefaultActivityLimit ELSE limit
  IN {Result(T, NoError, FALSE, Limit(seq, n)) :
        seq \in OrderByCreatedAtDesc({r \in T : r.user_id = userId})}

\* ---------------------------------------------------------------- profile
\* mutant of ApplyProfileUpdate: the picture is tested for truthiness, so an explicit
\* null is not written
ApplyProfileUpdateTruthy(r, input, t) ==
  [r EXCEPT !.updated_at = t,
            !.first_name = IF input.first_name # UNSET THEN input.first_name ELSE @,
            !.last_name = IF input.last_name # UNSET THEN input.last_name ELSE @,
            !.profile_picture_url =
              IF input.profile_picture_url \notin {UNSET, NULL}
                THEN input.profile_picture_url ELSE @]

\* the .set(updateData) of updateUserProfile applied to one row
ApplyProfileUpdate(r, input, t) ==
  [r EXCEPT !.updated_at = t,
            !.first_name = IF input.first_name # UNSET THEN input.first_name ELSE @,
            !.last_name = IF input.last_name # UNSET THEN input.last_name ELSE @,
            !.profile_picture_url =
              IF input.profile_picture_url # UNSET THEN input.profile_picture_url ELSE @]

\* updateUserProfile(userId, input): one UPDATE ... WHERE id = userId RETURNING, throw when
\* it returned no row; P maps each user id to its row
updateUserProfile(P, t, userId, input) ==
  LET result == {ApplyProfileUpdate(P[u], input, t) : u \in {v \in DOMAIN P : v = userId}}
  IN IF result = {}
       THEN Result(P, Error("User with id not found", userId), FALSE, <<>>)
       ELSE Result([u \in DOMAIN P |-> IF u = userId THEN ApplyProfileUpdate(P[u], input, t)
                                                    ELSE P[u]],
                   NoError, FALSE, <<CHOOSE r \in result : TRUE>>)

\* ----------------------------------------------------------------- agents
\* a SELECT without ORDER BY: the rows of S in every order the store may return
RECURSIVE AnyOrder(_)
AnyOrder(S) ==
  IF S = {} THEN {<<>>}
  ELSE UNION {{<<r>> \o rest : rest \in AnyOrder(S \ {r})} : r \in S}

\* mutant of getAIAgents: the WHERE clause is left out
getAIAgentsAll(A) ==
  {Result(A, NoError, FALSE, seq) : seq \in AnyOrder(A)}

\* getAIAgents(): SELECT ... WHERE is_active = true
getAIAgents(A) ==
  {Result(A, NoError, FALSE, seq) : seq \in AnyOrder({a \in A : a.is_active = TRUE})}

\* ---------------------------------------------------- failing store queries
\* Each handler awaits its queries one after the other inside one try block whose catch
\* logs and rethrows.  The operators below run a handler with the store failing its
\* failAt-th query (0: no query fails) and also yield the queries issued, in order.

\* the error a failing query rejects with
StoreFailure == Error("store failure", "none")

\* a handler outcome r together with the queries the handler issued
StoreRun(r, queries) ==
  [table |-> r.table, err |-> r.err, flag |-> r.flag, rows |-> r.rows, queries |-> queries]

\* the queries each handler issues when none fails and none of its own throws is taken
QueryPlan(op) ==
  CASE op = "createTask" -> <<"insert tasks">>
    [] op = "updateTask" -> <<"select tasks", "update tasks">>
    [] op = "createDocument" -> <<"select users", "insert documents">>
    [] op = "deleteDocument" -> <<"select documents", "delete documents">>
    [] op = "sendMessage" -> <<"select users", "select ai_agents", "insert chat_messages",
                               "insert chat_messages">>

\* the rejection of a handler whose k-th query failed, the table being T by then
Rejected(T, op, k) ==
  StoreRun(Result(T, StoreFailure, FALSE, <<>>), SubSeq(QueryPlan(op), 1, k))

createTaskStore(T, t, userId, input, uuid, failAt) ==
  IF failAt = 1 THEN Rejected(T, "createTask", 1)
  ELSE StoreRun(createTask(T, t, userId, input, uuid), QueryPlan("createTask"))

\* mutant of updateTaskStore: a failed UPDATE is issued once more
updateTaskStoreRetries(T, t, userId, input, failAt) ==
  LET ok == updateTask(T, t, userId, input)
  IN IF failAt = 1 THEN Rejected(T, "updateTask", 1)
     ELSE IF ok.err # NoError THEN StoreRun(ok, SubSeq(QueryPlan("updateTask"), 1, 1))
     ELSE IF failAt = 2 THEN StoreRun(ok, QueryPlan("updateTask") \o <<"update tasks">>)
     ELSE StoreRun(ok, QueryPlan("updateTask"))

updateTaskStore(T, t, userId, input, failAt) ==
  LET ok == updateTask(T, t, userId, input)
  IN IF failAt = 1 THEN Rejected(T, "updateTask", 1)
     ELSE IF ok.err # NoError THEN StoreRun(ok, SubSeq(QueryPlan("updateTask"), 1, 1))
     ELSE IF failAt = 2 THEN Rejected(T, "updateTask", 2)
     ELSE StoreRun(ok, QueryPlan("updateTask"))

createDocumentStore(T, t, userId, input, uuid, failAt) ==
  LET ok == createDocument(T, t, userId, input, uuid)
  IN IF failAt = 1 THEN Rejected(T, "createDocument", 1)
     ELSE IF ok.err # NoError THEN StoreRun(ok, SubSeq(QueryPlan("createDocument"), 1, 1))
     ELSE IF failAt = 2 THEN Rejected(T, "createDocument", 2)
     ELSE StoreRun(ok, QueryPlan("createDocument"))

deleteDocumentStore(T, userId, documentId, failAt) ==
  LET ok == deleteDocument(T, userId, documentId)
  IN IF failAt = 1 THEN Rejected(T, "deleteDocument", 1)
     ELSE IF ~ok.flag THEN StoreRun(ok, SubSeq(QueryPlan("deleteDocument"), 1, 1))
     ELSE IF failAt = 2 THEN Rejected(T, "deleteDocument", 2)
     ELSE StoreRun(ok, QueryPlan("deleteDocument"))

\* the first INSERT of sendMessage is committed when the second one fails
sendMessageStore(T, t1, t2, userId, input, uuids, aiResponse, failAt) ==
  LET ok == sendMessage(T, t1, t2, userId, input, uuids, aiResponse)
      userRows == {x \in ok.table \ T : x.is_user_message}
  IN IF failAt = 1 THEN Rejected(T, "sendMessage", 1)
     ELSE IF userId \notin users THEN StoreRun(ok, SubSeq(QueryPlan("sendMessage"), 1, 1))
     ELSE IF failAt = 2 THEN Rejected(T, "sendMessage", 2)
     ELSE IF ok.err # NoError THEN StoreRun(ok, SubSeq(QueryPlan("sendMessage"), 1, 2))
     ELSE IF failAt = 3 THEN Rejected(T, "sendMessage", 3)
     ELSE IF failAt = 4 THEN Rejected(T \cup userRows, "sendMessage", 4)
     ELSE StoreRun(ok, QueryPlan("sendMessage"))

\* -------------------------------------------------------------- dashboard
\* sevenDaysAgo.setDate(sevenDaysAgo.getDate() - 7): the look-back, in days
WindowDays == 7

\* mutant of getDashboardStats: pending_tasks counts every task that is not completed
getDashboardStatsPendingRest(TT, DT, AT, t, userId) ==
  LET sevenDaysAgo == t - WindowDays
  IN Result(TT, NoError, FALSE,
       <<[total_tasks |-> Cardinality({r \in TT : r.user_id = userId}),
          completed_tasks |-> Cardinality({r \in TT : r.user_id = userId /\ r.status = "completed"}),
          pending_tasks |-> Cardinality({r \in TT : r.user_id = userId /\ r.status # "completed"}),
          total_documents |-> Cardinality({r \in DT : r.user_id = userId}),
          recent_activity_count |->
            Cardinality({r \in AT : r.user_id = userId /\ r.created_at >= sevenDaysAgo})]>>)

\* mutant of getDashboardStats: the window is compared with gt instead of gte
getDashboardStatsStrictWindow(TT, DT, AT, t, userId) ==
  LET sevenDaysAgo == t - WindowDays
  IN Result(TT, NoError, FALSE,
       <<[total_tasks |-> Cardinality({r \in TT : r.user_id = userId}),
          completed_tasks |-> Cardinality({r \in TT : r.user_id = userId /\ r.status = "completed"}),
          pending_tasks |-> Cardinality({r \in TT : r.user_id = userId /\ r.status = "pending"}),
          total_documents |-> Cardinality({r \in DT : r.user_id = userId}),
          recent_activity_count |->
            Cardinality({r \in AT : r.user_id = userId /\ r.created_at > sevenDaysAgo})]>>)

\* getDashboardStats(userId): five count queries over tasks (TT), documents (DT) and the
\* activity log (AT); the clock t counts days where this handler is called
getDashboardStats(TT, DT, AT, t, userId) ==
  LET sevenDaysAgo == t - WindowDays
  IN Result(TT, NoError, FALSE,
       <<[total_tasks |-> Cardinality({r \in TT : r.user_id = userId}),
          completed_tasks |-> Cardinality({r \in TT : r.user_id = userId /\ r.status = "completed"}),
          pending_tasks |-> Cardinality({r \in TT : r.user_id = userId /\ r.status = "pending"}),
          total_documents |-> Cardinality({r \in DT : r.user_id = userId}),
          recent_activity_count |->
            Cardinality({r \in AT : r.user_id = userId /\ r.created_at >= sevenDaysAgo})]>>)

\* ----------------------------------------------------------------- inputs
\* CreateTaskInput values (priority carries the zod default "medium" when not given)
CreateTaskInputs ==
  [title : {"t1"}, description : {NULL, "d1"}, priority : {"medium", "high"},
   due_date : {NULL, "due1"}]

\* UpdateTaskInput values: every optional key is absent or present, nullable keys may be null
UpdateTaskInputs ==
  [id : TaskIds, title : {UNSET, "t2"}, description : {UNSET, NULL, "d2"},
   status : {UNSET, "in_progress", "completed"}, priority : {UNSET, "low"},
   due_date : {UNSET, NULL, "due2"}]

\* the inputs the calls on several rows draw from
SomeCreateTaskInputs ==
  {i \in CreateTaskInputs : /\ (i.description = NULL) = (i.priority = "medium")
                            /\ (i.description = NULL) = (i.due_date = NULL)}
SomeUpdateTaskInputs ==
  {i \in UpdateTaskInputs : /\ i.title = UNSET /\ i.description = UNSET
                            /\ i.priority = UNSET /\ i.due_date = UNSET
                            /\ i.status \in {UNSET, "completed"}}

\* CreateDocumentInput values
CreateDocumentInputs ==
  [name : {"n1"}, description : {NULL, "d1"}, file_url : {"https://files/f1"},
   file_type : {"application/pdf"}, file_size : {1024}, folder_path : {NULL, "work"}]

\* UpdateDocumentInput values
UpdateDocumentInputs ==
  [id : DocumentIds, name : {UNSET, "n2"}, description : {UNSET, NULL, "d2"},
   folder_path : {UNSET, NULL, "home"}]

\* the inputs the calls on several rows draw from
SomeCreateDocumentInputs ==
  {i \in CreateDocumentInputs : (i.description = NULL) = (i.folder_path = NULL)}
SomeUpdateDocumentInputs ==
  {i \in UpdateDocumentInputs : /\ i.description = UNSET /\ i.folder_path = UNSET}

\* folderPath arguments of getDocuments
FolderPaths == {UNSET, NULL, "work"}

\* agent ids handed to the chat handlers: "a0" matches no agent row
AgentIds == {"a0", "a1", "a2", "a3"}

\* SendMessageInput values
SendMessageInputs == [agent_id : AgentIds, message : {"hello"}]

\* limit arguments of getChatHistory and getRecentActivity
Limits == {Omitted, 1, 2}

\* the agents whose history the recorded getChatHistory calls ask for
HistoryAgentIds == {"a1"}

\* arguments of logActivity
LogActivityInputs ==
  {i \in [action : {"task_created"}, description : {"Created a task"},
          entityType : {UNSET, "task"}, entityId : {UNSET, "k1"}] :
     (i.entityType = UNSET) = (i.entityId = UNSET)}

\* UpdateUserProfileInput values
UpdateUserProfileInputs ==
  [first_name : {UNSET, "f1"}, last_name : {UNSET, "l1"},
   profile_picture_url : {UNSET, NULL, "https://pictures/p1"}]

\* ---------------------------------------------------------- initial state
\* the usersTable row of user u as the sign-up wrote it (no picture yet)
UserRow(u) ==
  [id |-> u, email |-> <<u, "@example.com">>, first_name |-> "f0", last_name |-> "l0",
   profile_picture_url |-> NULL, created_at |-> 0, updated_at |-> 0]

Init ==
  /\ users = UserIds
  /\ profiles = [u \in UserIds |-> UserRow(u)]
  /\ aiAgents = {[id |-> "a1", specialization |-> "productivity", is_active |-> TRUE],
                 [id |-> "a2", specialization |-> "document", is_active |-> FALSE],
                 [id |-> "a3", specialization |-> "finance", is_active |-> TRUE]}
  /\ tasks = {}
  /\ documents = {}
  /\ chatMessages = {}
  /\ activityLog = {}
  /\ now = 0
  /\ scope \in Scopes
  /\ last = [op |-> "none", user |-> "none", id |-> "none", arg |-> "none", limit |-> Omitted,
             err |-> NoError, flag |-> FALSE, rows |-> <<>>]
  /\ calls = NoCalls

\* mutant of randomUUID: a fixed id, as the placeholder handlers return
randomUUIDPlaceholder(pool, T) == CHOOSE id \in pool : TRUE

\* randomUUID(): an id no row of the table holds; ids are opaque, so the
\* first unused id of the pool stands for whichever fresh uuid is drawn
randomUUID(pool, T) == CHOOSE id \in pool \ {r.id : r \in T} : TRUE

\* the pool has an id left for one more row
CanInsert(pool, T, n) == Cardinality(pool \ {r.id : r \in T}) >= n

\* ---------------------------------------------------------------- actions
\* what every step that is no handler call records
Idle(op) == Outcome(op, "none", "none", "none", Omitted, Result({}, NoError, FALSE, <<>>))

\* time passes between two handler calls
Tick ==
  /\ now < MaxTime
  /\ now' = now + 1
  /\ last' = Idle("tick")
  /\ UNCHANGED <<calls, users, profiles, aiAgents, tasks, documents, chatMessages, activityLog, scope>>

\* a createTask call with an input of `inputs` and a uuid of `pool`
DoCreateTask(pool, inputs) ==
  /\ scope = "tasks"
  /\ CanInsert(pool, tasks, 1)
  /\ \E c \in Callers, input \in inputs :
       LET uuid == randomUUID(pool, tasks)
           r == createTask(tasks, now, c, input, uuid)
       IN /\ tasks' = r.table
          /\ last' = Outcome("createTask", c, uuid, "none", Omitted, r)
  /\ UNCHANGED <<calls, users, profiles, aiAgents, documents, chatMessages, activityLog, now, scope>>

\* an updateTask call with an input of `inputs`
DoUpdateTask(inputs) ==
  /\ scope = "tasks"
  /\ \E c \in Callers, input \in inputs :
       LET r == updateTask(tasks, now, c, input)
       IN /\ tasks' = r.table
          /\ last' = Outcome("updateTask", c, input.id, "none", Omitted, r)
  /\ UNCHANGED <<calls, users, profiles, aiAgents, documents, chatMessages, activityLog, now, scope>>

\* a createDocument call with an input of `inputs` and a uuid of `pool`
DoCreateDocument(pool, inputs) ==
  /\ scope = "documents"
  /\ CanInsert(pool, documents, 1)
  /\ \E c \in Callers, input \in inputs :
       LET uuid == randomUUID(pool, documents)
           r == createDocument(documents, now, c, input, uuid)
       IN /\ documents' = r.table
          /\ last' = Outcome("createDocument", c, uuid, "none", Omitted, r)
  /\ UNCHANGED <<calls, users, profiles, aiAgents, tasks, chatMessages, activityLog, now, scope>>

\* an updateDocument call with an input of `inputs`
DoUpdateDocument(inputs) ==
  /\ scope = "documents"
  /\ \E c \in Callers, input \in inputs :
       LET r == updateDocument(documents, now, c, input)
       IN /\ documents' = r.table
          /\ last' = Outcome("updateDocument", c, input.id, "none", Omitted, r)
  /\ UNCHANGED <<calls, users, profiles, aiAgents, tasks, chatMessages, activityLog, now, scope>>

CallCreateTask == DoCreateTask(TaskIds, SomeCreateTaskInputs)

CallUpdateTask == DoUpdateTask(SomeUpdateTaskInputs)

CallDeleteTask ==
  /\ scope = "tasks"
  /\ \E c \in Callers, taskId \in TaskIds :
       LET r == deleteTask(tasks, c, taskId)
       IN /\ tasks' = r.table
          /\ last' = Outcome("deleteTask", c, taskId, "none", Omitted, r)
  /\ UNCHANGED <<calls, users, profiles, aiAgents, documents, chatMessages, activityLog, now, scope>>

CallGetTasks ==
  /\ scope = "tasks"
  /\ \E c \in Callers : \E r \in getTasks(tasks, c) :
       /\ tasks' = r.table
       /\ last' = Outcome("getTasks", c, "none", "none", Omitted, r)
  /\ UNCHANGED <<calls, users, profiles, aiAgents, documents, chatMessages, activityLog, now, scope>>

CallCreateDocument == DoCreateDocument(DocumentIds, SomeCreateDocumentInputs)

CallUpdateDocument == DoUpdateDocument(SomeUpdateDocumentInputs)

CallDeleteDocument ==
  /\ scope = "documents"
  /\ \E c \in Callers, documentId \in DocumentIds :
       LET r == deleteDocument(documents, c, documentId)
       IN /\ documents' = r.table
          /\ last' = Outcome("deleteDocument", c, documentId, "none", Omitted, r)
  /\ UNCHANGED <<calls, users, profiles, aiAgents, tasks, chatMessages, activityLog, now, scope>>

CallGetDocuments ==
  /\ scope = "documents"
  /\ \E c \in Callers, folderPath \in FolderPaths : \E r \in getDocuments(documents, c, folderPath) :
       /\ documents' = r.table
       /\ last' = Outcome("getDocuments", c, "none", folderPath, Omitted, r)
  /\ UNCHANGED <<calls, users, profiles, aiAgents, tasks, chatMessages, activityLog, now, scope>>

\* the clock may advance between the two inserts of sendMessage
CallSendMessage ==
  /\ scope = "chat"
  /\ CanInsert(ChatIds, chatMessages, 2)
  /\ \E c \in Callers, input \in SendMessageInputs, t2 \in {now, now + 1} :
     \E aiResponse \in UNION {generateAIResponse(input.message, a.specialization) : a \in aiAgents} :
       /\ t2 <= MaxTime
       /\ \A a \in aiAgents : a.id = input.agent_id =>
            aiResponse \in generateAIResponse(input.message, a.specialization)
       /\ LET userMessageId == randomUUID(ChatIds, chatMessages)
              aiMessageId == randomUUID(ChatIds \ {userMessageId}, chatMessages)
              r == sendMessage(chatMessages, now, t2, c, input,
                               <<userMessageId, aiMessageId>>, aiResponse)
          IN /\ chatMessages' = r.table
             /\ now' = IF r.err = NoError THEN t2 ELSE now
             /\ last' = Outcome("sendMessage", c, input.agent_id, "none", Omitted, r)
  /\ UNCHANGED <<calls, users, profiles, aiAgents, tasks, documents, activityLog, scope>>

CallGetChatHistory ==
  /\ scope = "chat"
  /\ \E c \in Callers, agentId \in HistoryAgentIds, limit \in Limits :
     \E r \in getChatHistory(chatMessages, c, agentId, limit) :
       /\ chatMessages' = r.table
       /\ last' = Outcome("getChatHistory", c, agentId, "none", limit, r)
  /\ UNCHANGED <<calls, users, profiles, aiAgents, tasks, documents, activityLog, now, scope>>

CallLogActivity ==
  /\ scope = "activity"
  /\ CanInsert(ActivityIds, activityLog, 1)
  /\ \E c \in Callers, input \in LogActivityInputs :
       LET uuid == randomUUID(ActivityIds, activityLog)
           r == logActivity(activityLog, now, c, input, uuid)
       IN /\ activityLog' = r.table
          /\ last' = Outcome("logActivity", c, uuid, "none", Omitted, r)
  /\ UNCHANGED <<calls, users, profiles, aiAgents, tasks, documents, chatMessages, now, scope>>

CallGetRecentActivity ==
  /\ scope = "activity"
  /\ \E c \in Callers, limit \in Limits : \E r \in getRecentActivity(activityLog, c, limit) :
       /\ activityLog' = r.table
       /\ last' = Outcome("getRecentActivity", c, "none", "none", limit, r)
  /\ UNCHANGED <<calls, users, profiles, aiAgents, tasks, documents, chatMessages, now, scope>>

Next ==
  \/ Tick
  \/ CallCreateTask \/ CallUpdateTask \/ CallDeleteTask \/ CallGetTasks
  \/ CallCreateDocument \/ CallUpdateDocument \/ CallDeleteDocument \/ CallGetDocuments
  \/ CallSendMessage \/ CallGetChatHistory
  \/ CallLogActivity \/ CallGetRecentActivity

Spec == Init /\ [][Next]_vars

\* ------------------------------------------- the behaviours of one table
\* the behaviours of Spec whose scope is the documents table
InitDocuments == Init /\ scope = "documents"

NextDocuments ==
  \/ Tick
  \/ CallCreateDocument \/ CallUpdateDocument \/ CallDeleteDocument \/ CallGetDocuments

SpecDocuments == InitDocuments /\ [][NextDocuments]_vars

\* the behaviours of Spec whose scope is the chat table
InitChat == Init /\ scope = "chat"

NextChat == Tick \/ CallSendMessage \/ CallGetChatHistory

SpecChat == InitChat /\ [][NextChat]_vars

\* ---------------------------------------- one row, every update input
\* the id of the one row the update specification works on
OneTaskId == {"k1"}
OneDocumentId == {"d1"}

EditCreateTask == DoCreateTask(OneTaskId, CreateTaskInputs)

EditUpdateTask == DoUpdateTask({i \in UpdateTaskInputs : i.id \in OneTaskId})

EditCreateDocument == DoCreateDocument(OneDocumentId, CreateDocumentInputs)

EditUpdateDocument == DoUpdateDocument({i \in UpdateDocumentInputs : i.id \in OneDocumentId})

NextUpdate ==
  \/ Tick
  \/ EditCreateTask \/ EditUpdateTask
  \/ EditCreateDocument \/ EditUpdateDocument

SpecUpdate == Init /\ [][NextUpdate]_vars

\* ------------------------------------------------------- the dashboard
\* The five counts of getDashboardStats are five queries, each on one table.  A
\* behaviour of scope "stats" fills tasks and documents while the clock stands still;
\* a behaviour of scope "window" fills the activity log while days pass.
StatsScopes == {"stats", "window"}

\* task ids of the dashboard specification
StatsTaskIds == {"k1", "k2", "k3", "k4"}

InitStats ==
  /\ users = UserIds
  /\ profiles = [u \in UserIds |-> UserRow(u)]
  /\ aiAgents = {}
  /\ tasks = {}
  /\ documents = {}
  /\ chatMessages = {}
  /\ activityLog = {}
  /\ now = 0
  /\ scope \in StatsScopes
  /\ last = Idle("none")
  /\ calls = NoCalls

StatsCreateTask ==
  /\ scope = "stats"
  /\ CanInsert(StatsTaskIds, tasks, 1)
  /\ \E c \in Callers, input \in {i \in SomeCreateTaskInputs : i.description = NULL} :
       LET uuid == randomUUID(StatsTaskIds, tasks)
           r == createTask(tasks, now, c, input, uuid)
       IN /\ tasks' = r.table
          /\ last' = Outcome("createTask", c, uuid, "none", Omitted, r)
  /\ UNCHANGED <<calls, users, profiles, aiAgents, documents, chatMessages, activityLog, now, scope>>

StatsUpdateTask ==
  /\ scope = "stats"
  /\ \E c \in Callers, id \in StatsTaskIds, status \in {"in_progress", "completed"} :
       LET input == [id |-> id, title |-> UNSET, description |-> UNSET, status |-> status,
                     priority |-> UNSET, due_date |-> UNSET]
           r == updateTask(tasks, now, c, input)
       IN /\ tasks' = r.table
          /\ last' = Outcome("updateTask", c, id, "none", Omitted, r)
  /\ UNCHANGED <<calls, users, profiles, aiAgents, documents, chatMessages, activityLog, now, scope>>

StatsCreateDocument ==
  /\ scope = "stats"
  /\ CanInsert(DocumentIds, documents, 1)
  /\ \E c \in Callers, input \in {i \in SomeCreateDocumentInputs : i.description = NULL} :
       LET uuid == randomUUID(DocumentIds, documents)
           r == createDocument(documents, now, c, input, uuid)
       IN /\ documents' = r.table
          /\ last' = Outcome("createDocument", c, uuid, "none", Omitted, r)
  /\ UNCHANGED <<calls, users, profiles, aiAgents, tasks, chatMessages, activityLog, now, scope>>

WindowLogActivity ==
  /\ scope = "window"
  /\ CanInsert(ActivityIds, activityLog, 1)
  /\ \E c \in Callers, input \in {i \in LogActivityInputs : i.entityType = UNSET} :
       LET uuid == randomUUID(ActivityIds, activityLog)
           r == logActivity(activityLog, now, c, input, uuid)
       IN /\ activityLog' = r.table
          /\ last' = Outcome("logActivity", c, uuid, "none", Omitted, r)
  /\ UNCHANGED <<calls, users, profiles, aiAgents, tasks, documents, chatMessages, now, scope>>

\* a day passes between two handler calls
DayPasses ==
  /\ scope = "window"
  /\ now < MaxDay
  /\ now' = now + 1
  /\ last' = Idle("tick")
  /\ UNCHANGED <<calls, users, profiles, aiAgents, tasks, documents, chatMessages, activityLog, scope>>

CallGetDashboardStats ==
  /\ scope \in StatsScopes
  /\ \E c \in Callers :
       LET r == getDashboardStats(tasks, documents, activityLog, now, c)
       IN last' = Outcome("getDashboardStats", c, "none", "none", Omitted, r)
  /\ UNCHANGED <<calls, users, profiles, aiAgents, tasks, documents, chatMessages, activityLog, now, scope>>

NextStats ==
  \/ StatsCreateTask \/ StatsUpdateTask \/ StatsCreateDocument
  \/ WindowLogActivity \/ DayPasses
  \/ CallGetDashboardStats

SpecStats == InitStats /\ [][NextStats]_vars

\* ------------------------------------------------- deletion of a user
\* DELETE FROM users WHERE id = u, with the cascades the four referencing tables declare
DeleteUser ==
  /\ \E u \in users :
       /\ users' = users \ {u}
       /\ profiles' = [v \in users \ {u} |-> profiles[v]]
       /\ tasks' = OnDeleteCascade(tasks, u)
       /\ documents' = OnDeleteCascade(documents, u)
       /\ chatMessages' = OnDeleteCascade(chatMessages, u)
       /\ activityLog' = OnDeleteCascade(activityLog, u)
       /\ last' = Outcome("deleteUser", u, "none", "none", Omitted,
                          Result({}, NoError, TRUE, <<>>))
  /\ UNCHANGED <<calls, aiAgents, now, scope>>

NextCascade ==
  \/ Tick
  \/ CallCreateTask \/ CallCreateDocument \/ CallSendMessage \/ CallLogActivity
  \/ DeleteUser

SpecCascade == Init /\ [][NextCascade]_vars

\* --------------------------------------------- calls with a failing store
\* what a call with a failing store records: failAt in `arg`, and the queries issued
StoreOutcome(op, user, id, failAt, r) ==
  [op |-> op, user |-> user, id |-> id, arg |-> failAt, limit |-> Omitted,
   err |-> r.err, flag |-> r.flag, rows |-> r.rows, queries |-> r.queries]

\* the query that fails: none (0) or the failAt-th the handler would issue
FailAt(op) == 0..Len(QueryPlan(op))

InitFailure ==
  /\ users = UserIds
  /\ profiles = [u \in UserIds |-> UserRow(u)]
  /\ aiAgents = {[id |-> "a1", specialization |-> "productivity", is_active |-> TRUE],
                 [id |-> "a2", specialization |-> "document", is_active |-> FALSE]}
  /\ tasks = {}
  /\ documents = {}
  /\ chatMessages = {}
  /\ activityLog = {}
  /\ now = 0
  /\ scope \in {"tasks", "documents", "chat"}
  /\ last = Idle("none")
  /\ calls = NoCalls

FailCreateTask ==
  /\ scope = "tasks"
  /\ CanInsert(TaskIds, tasks, 1)
  /\ \E c \in Callers, input \in SomeCreateTaskInputs, failAt \in FailAt("createTask") :
       LET uuid == randomUUID(TaskIds, tasks)
           r == createTaskStore(tasks, now, c, input, uuid, failAt)
       IN /\ tasks' = r.table
          /\ last' = StoreOutcome("createTask", c, uuid, failAt, r)
  /\ UNCHANGED <<calls, users, profiles, aiAgents, documents, chatMessages, activityLog, now, scope>>

FailUpdateTask ==
  /\ scope = "tasks"
  /\ \E c \in Callers, input \in SomeUpdateTaskInputs, failAt \in FailAt("updateTask") :
       LET r == updateTaskStore(tasks, now, c, input, failAt)
       IN /\ tasks' = r.table
          /\ last' = StoreOutcome("updateTask", c, input.id, failAt, r)
  /\ UNCHANGED <<calls, users, profiles, aiAgents, documents, chatMessages, activityLog, now, scope>>

FailCreateDocument ==
  /\ scope = "documents"
  /\ CanInsert(DocumentIds, documents, 1)
  /\ \E c \in Callers, input \in SomeCreateDocumentInputs, failAt \in FailAt("createDocument") :
       LET uuid == randomUUID(DocumentIds, documents)
           r == createDocumentStore(documents, now, c, input, uuid, failAt)
       IN /\ documents' = r.table
          /\ last' = StoreOutcome("createDocument", c, uuid, failAt, r)
  /\ UNCHANGED <<calls, users, profiles, aiAgents, tasks, chatMessages, activityLog, now, scope>>

FailDeleteDocument ==
  /\ scope = "documents"
  /\ \E c \in Callers, documentId \in DocumentIds, failAt \in FailAt("deleteDocument") :
       LET r == deleteDocumentStore(documents, c, documentId, failAt)
       IN /\ documents' = r.table
          /\ last' = StoreOutcome("deleteDocument", c, documentId, failAt, r)
  /\ UNCHANGED <<calls, users, profiles, aiAgents, tasks, chatMessages, activityLog, now, scope>>

FailSendMessage ==
  /\ scope = "chat"
  /\ CanInsert(ChatIds, chatMessages, 2)
  /\ \E c \in Callers, input \in SendMessageInputs, failAt \in FailAt("sendMessage") :
     \E aiResponse \in UNION {generateAIResponse(input.message, a.specialization) : a \in aiAgents} :
       /\ \A a \in aiAgents : a.id = input.agent_id =>
            aiResponse \in generateAIResponse(input.message, a.specialization)
       /\ LET userMessageId == randomUUID(ChatIds, chatMessages)
              aiMessageId == randomUUID(ChatIds \ {userMessageId}, chatMessages)
              r == sendMessageStore(chatMessages, now, now, c, input,
                                    <<userMessageId, aiMessageId>>, aiResponse, failAt)
          IN /\ chatMessages' = r.table
             /\ last' = StoreOutcome("sendMessage", c, input.agent_id, failAt, r)
  /\ UNCHANGED <<calls, users, profiles, aiAgents, tasks, documents, activityLog, now, scope>>

NextFailure ==
  \/ Tick
  \/ FailCreateTask \/ FailUpdateTask
  \/ FailCreateDocument \/ FailDeleteDocument
  \/ FailSendMessage

SpecFailure == InitFailure /\ [][NextFailure]_vars

\* ------------------------------------------------------------ the agents
\* ai_agents rows are written by seeding, not by a handler
SeedAgentIds == {"a1", "a2", "a3"}

InitAgents ==
  /\ users = UserIds
  /\ profiles = [u \in UserIds |-> UserRow(u)]
  /\ aiAgents = {}
  /\ tasks = {}
  /\ documents = {}
  /\ chatMessages = {}
  /\ activityLog = {}
  /\ now = 0
  /\ scope = "agents"
  /\ last = Idle("none")
  /\ calls = NoCalls

\* db.insert(aiAgentsTable).values(agent): is_active is whatever the seed says
SeedAgent ==
  /\ \E id \in SeedAgentIds \ {a.id : a \in aiAgents} :
     \E specialization \in {"productivity", "document"}, is_active \in BOOLEAN :
       aiAgents' = aiAgents \cup
         {[id |-> id, specialization |-> specialization, is_active |-> is_active]}
  /\ last' = Idle("seed")
  /\ UNCHANGED <<calls, users, profiles, tasks, documents, chatMessages, activityLog, now, scope>>

CallGetAIAgents ==
  /\ \E r \in getAIAgents(aiAgents) :
       last' = Outcome("getAIAgents", "none", "none", "none", Omitted, r)
  /\ UNCHANGED <<calls, users, profiles, aiAgents, tasks, documents, chatMessages, activityLog, now, scope>>

NextAgents == SeedAgent \/ CallGetAIAgents

SpecAgents == InitAgents /\ [][NextAgents]_vars

\* ----------------------------------------------------------- the profile
InitProfile ==
  /\ users = UserIds
  /\ profiles = [u \in UserIds |-> UserRow(u)]
  /\ aiAgents = {}
  /\ tasks = {}
  /\ documents = {}
  /\ chatMessages = {}
  /\ activityLog = {}
  /\ now = 0
  /\ scope = "profile"
  /\ last = Idle("none")
  /\ calls = NoCalls

\* `arg` records the input of the call
CallUpdateUserProfile ==
  /\ \E c \in Callers, input \in UpdateUserProfileInputs :
       LET r == updateUserProfile(profiles, now, c, input)
       IN /\ profiles' = r.table
          /\ last' = Outcome("updateUserProfile", c, "none", input, Omitted, r)
  /\ UNCHANGED <<calls, users, aiAgents, tasks, documents, chatMessages, activityLog, now, scope>>

NextProfile == Tick \/ CallUpdateUserProfile

SpecProfile == InitProfile /\ [][NextProfile]_vars

\* ------------------------------------------- overlapping calls, by statement
\* the SELECT of updateTask: the rows WHERE id = :id AND user_id = :userId
updateTaskSelect(T, userId, input) == {r \in T : TaskMatches(r, input.id, userId)}

\* mutant of updateTaskUpdate: an optimistic check, rows written at a later time than
\* the call's own are left alone
updateTaskUpdateIfNewer(T, t, userId, input) ==
  LET matched == {r \in T : TaskMatches(r, input.id, userId) /\ r.updated_at <= t}
      result == {ApplyTaskUpdate(r, input, t) : r \in matched}
  IN Result((T \ matched) \cup result, NoError, FALSE,
            IF result = {} THEN <<UNSET>> ELSE <<CHOOSE r \in result : TRUE>>)

\* the UPDATE ... WHERE id AND user_id ... RETURNING of updateTask and its
\* `return result[0]`, which is undefined when the statement returned no row
updateTaskUpdate(T, t, userId, input) ==
  LET matched == {r \in T : TaskMatches(r, input.id, userId)}
      result == {ApplyTaskUpdate(r, input, t) : r \in matched}
  IN Result((T \ matched) \cup result, NoError, FALSE,
            IF result = {} THEN <<UNSET>> ELSE <<CHOOSE r \in result : TRUE>>)

\* the SELECT of deleteDocument
deleteDocumentSelect(T, userId, documentId) == {r \in T : DocumentMatches(r, documentId, userId)}

\* mutant of deleteDocumentDelete: the row the SELECT found is taken as deleted
deleteDocumentDeleteTrustsSelect(T, userId, documentId) ==
  LET deleted == {r \in T : DocumentMatches(r, documentId, userId)}
  IN Result(T \ deleted, NoError, TRUE, <<>>)

\* the DELETE of deleteDocument and its `rowCount > 0`
deleteDocumentDelete(T, userId, documentId) ==
  LET deleted == {r \in T : DocumentMatches(r, documentId, userId)}
  IN Result(T \ deleted, NoError, Cardinality(deleted) > 0, <<>>)

\* the statement a call of handler `op` runs first
FirstStatement(op) ==
  CASE op = "updateTask" -> "select"
    [] op = "updateDocument" -> "build"
    [] op = "deleteTask" -> "delete"
    [] op = "deleteDocument" -> "select"
    [] op = "createTask" -> "insert"
    [] op = "getDashboardStats" -> "count1"
    [] op = "sendMessage" -> "selectUser"
    [] op = "logActivity" -> "insert"
    [] op \in {"getDocuments", "getChatHistory", "getRecentActivity"} -> "select"

\* the call returns or throws with the outcome r
Finish(c, r) == [c EXCEPT !.pc = "done", !.err = r.err, !.flag = r.flag, !.rows = r.rows]

\* the rank the next write statement gets
WriteRank == 1 + Cardinality({q \in Procs : calls[q].wrote > 0})

\* the call's write statement has executed on n rows with the outcome r
FinishWrite(c, r, n) == [Finish(c, r) EXCEPT !.matched = n, !.wrote = WriteRank]

\* the inputs of the overlapping updates: one key each, on the one stored row
RaceTaskInputs ==
  {i \in [id : {"k1"}, title : {UNSET, "ta", "tb"}, description : {UNSET},
          status : {UNSET, "completed"}, priority : {UNSET}, due_date : {UNSET}] :
     (i.title = UNSET) # (i.status = UNSET)}
RaceDocumentInputs ==
  {i \in [id : {"d1"}, name : {UNSET, "na", "nb"}, description : {UNSET, "da"},
          folder_path : {UNSET}] :
     (i.name = UNSET) # (i.description = UNSET)}

\* the callers of the overlapping calls: the owner of the row and another user
RaceCallers == {"u1", "u2"}

\* one task or one document of u1 is stored, and no call has started
InitRace ==
  /\ users = UserIds
  /\ profiles = [u \in UserIds |-> UserRow(u)]
  /\ aiAgents = {}
  /\ scope \in {"tasks", "documents"}
  /\ tasks = IF scope = "tasks"
               THEN createTask({}, 0, "u1", [title |-> "t1", description |-> NULL,
                                             priority |-> "medium", due_date |-> NULL], "k1").table
               ELSE {}
  /\ documents = IF scope = "documents"
                   THEN createDocument({}, 0, "u1", [name |-> "n1", description |-> NULL,
                                                     file_url |-> "https://files/f1",
                                                     file_type |-> "application/pdf",
                                                     file_size |-> 1024,
                                                     folder_path |-> NULL], "d1").table
                   ELSE {}
  /\ chatMessages = {}
  /\ activityLog = {}
  /\ now = 0
  /\ last = Idle("none")
  /\ calls = NoCalls

\* a call of handler `op` arrives on the free connection p
StartCall(p, op, user, input) ==
  /\ calls[p].pc = "idle"
  /\ calls' = [calls EXCEPT ![p] = [NotStarted EXCEPT !.op = op, !.user = user, !.input = input,
                                                      !.pc = FirstStatement(op)]]
  /\ UNCHANGED <<users, profiles, aiAgents, tasks, documents, chatMessages, activityLog, now,
                 scope, last>>

StartUpdateTask(p) ==
  /\ scope = "tasks"
  /\ \E c \in RaceCallers, input \in RaceTaskInputs : StartCall(p, "updateTask", c, input)

StartDeleteTask(p) ==
  /\ scope = "tasks"
  /\ \E c \in RaceCallers : StartCall(p, "deleteTask", c, "k1")

StartUpdateDocument(p) ==
  /\ scope = "documents"
  /\ \E c \in RaceCallers, input \in RaceDocumentInputs : StartCall(p, "updateDocument", c, input)

StartDeleteDocument(p) ==
  /\ scope = "documents"
  /\ \E c \in RaceCallers : StartCall(p, "deleteDocument", c, "d1")

\* updateTask: the SELECT executes; the call throws when it returned no row
UpdateTaskSelect(p) ==
  LET c == calls[p]
  IN /\ c.op = "updateTask" /\ c.pc = "select"
     /\ calls' = [calls EXCEPT ![p] =
                    IF updateTaskSelect(tasks, c.user, c.input) = {}
                      THEN Finish(c, Result(tasks, Error("Task not found or access denied", "none"),
                                            FALSE, <<>>))
                      ELSE [c EXCEPT !.pc = "build"]]
     /\ UNCHANGED <<users, profiles, aiAgents, tasks, documents, chatMessages, activityLog, now,
                    scope, last>>

\* updateTask: updateData is built, updated_at: new Date() reads the clock
UpdateTaskBuild(p) ==
  LET c == calls[p]
  IN /\ c.op = "updateTask" /\ c.pc = "build"
     /\ calls' = [calls EXCEPT ![p] = [c EXCEPT !.pc = "update", !.t = now, !.seen = WriteRank - 1]]
     /\ UNCHANGED <<users, profiles, aiAgents, tasks, documents, chatMessages, activityLog, now,
                    scope, last>>

\* updateTask: the UPDATE executes and the call returns result[0]
UpdateTaskUpdate(p) ==
  LET c == calls[p]
      r == updateTaskUpdate(tasks, c.t, c.user, c.input)
  IN /\ c.op = "updateTask" /\ c.pc = "update"
     /\ tasks' = r.table
     /\ calls' = [calls EXCEPT ![p] =
                    FinishWrite(c, r, Cardinality(updateTaskSelect(tasks, c.user, c.input)))]
     /\ UNCHANGED <<users, profiles, aiAgents, documents, chatMessages, activityLog, now, scope,
                    last>>

\* deleteTask: its one DELETE executes
DeleteTaskDelete(p) ==
  LET c == calls[p]
      r == deleteTask(tasks, c.user, c.input)
  IN /\ c.op = "deleteTask" /\ c.pc = "delete"
     /\ tasks' = r.table
     /\ calls' = [calls EXCEPT ![p] =
                    FinishWrite(c, r, Cardinality({x \in tasks : TaskMatches(x, c.input, c.user)}))]
     /\ UNCHANGED <<users, profiles, aiAgents, documents, chatMessages, activityLog, now, scope,
                    last>>

\* updateDocument: updateData is built, updated_at: new Date() reads the clock
UpdateDocumentBuild(p) ==
  LET c == calls[p]
  IN /\ c.op = "updateDocument" /\ c.pc = "build"
     /\ calls' = [calls EXCEPT ![p] = [c EXCEPT !.pc = "update", !.t = now, !.seen = WriteRank - 1]]
     /\ UNCHANGED <<users, profiles, aiAgents, tasks, documents, chatMessages, activityLog, now,
                    scope, last>>

\* updateDocument: its one UPDATE executes; the call throws when it returned no row
UpdateDocumentUpdate(p) ==
  LET c == calls[p]
      r == updateDocument(documents, c.t, c.user, c.input)
  IN /\ c.op = "updateDocument" /\ c.pc = "update"
     /\ documents' = r.table
     /\ calls' = [calls EXCEPT ![p] =
                    FinishWrite(c, r, Cardinality({x \in documents :
                                                     DocumentMatches(x, c.input.id, c.user)}))]
     /\ UNCHANGED <<users, profiles, aiAgents, tasks, chatMessages, activityLog, now, scope, last>>

\* deleteDocument: the SELECT executes; the call returns false when it returned no row
DeleteDocumentSelect(p) ==
  LET c == calls[p]
  IN /\ c.op = "deleteDocument" /\ c.pc = "select"
     /\ calls' = [calls EXCEPT ![p] =
                    IF Cardinality(deleteDocumentSelect(documents, c.user, c.input)) = 0
                      THEN Finish(c, Result(documents, NoError, FALSE, <<>>))
                      ELSE [c EXCEPT !.pc = "delete"]]
     /\ UNCHANGED <<users, profiles, aiAgents, tasks, documents, chatMessages, activityLog, now,
                    scope, last>>

\* deleteDocument: the DELETE executes
DeleteDocumentDelete(p) ==
  LET c == calls[p]
      r == deleteDocumentDelete(documents, c.user, c.input)
  IN /\ c.op = "deleteDocument" /\ c.pc = "delete"
     /\ documents' = r.table
     /\ calls' = [calls EXCEPT ![p] =
                    FinishWrite(c, r, Cardinality(deleteDocumentSelect(documents, c.user, c.input)))]
     /\ UNCHANGED <<users, profiles, aiAgents, tasks, chatMessages, activityLog, now, scope, last>>

\* two connections, one call each, their statements interleaved in every order
NextRace ==
  \/ Tick
  \/ \E p \in Procs :
       \/ StartUpdateTask(p)
       \/ StartDeleteTask(p)
       \/ StartUpdateDocument(p)
       \/ StartDeleteDocument(p)
       \/ UpdateTaskSelect(p)
       \/ UpdateTaskBuild(p)
       \/ UpdateTaskUpdate(p)
       \/ DeleteTaskDelete(p)
       \/ UpdateDocumentBuild(p)
       \/ UpdateDocumentUpdate(p)
       \/ DeleteDocumentSelect(p)
       \/ DeleteDocumentDelete(p)

SpecRace == InitRace /\ [][NextRace]_vars

\* ------------------------------- getDashboardStats beside writes, by statement
\* mutant of countTasks: the owner is left out of the WHERE clause
countTasksAllOwners(TT, userId) == Cardinality(TT)

\* SELECT count(*) FROM tasks WHERE user_id = :userId
countTasks(TT, userId) == Cardinality({r \in TT : r.user_id = userId})

\* mutant of countTasksWithStatus: the status condition is left out of the WHERE
countTasksAnyStatus(TT, userId, status) == Cardinality({r \in TT : r.user_id = userId})

\* SELECT count(*) FROM tasks WHERE user_id = :userId AND status = :status
countTasksWithStatus(TT, userId, status) ==
  Cardinality({r \in TT : r.user_id = userId /\ r.status = status})

\* SELECT count(*) FROM documents WHERE user_id = :userId
countDocuments(DT, userId) == Cardinality({r \in DT : r.user_id = userId})

\* SELECT count(*) FROM activity_log WHERE user_id = :userId AND created_at >= :sevenDaysAgo
countRecentActivity(AT, userId, sevenDaysAgo) ==
  Cardinality({r \in AT : r.user_id = userId /\ r.created_at >= sevenDaysAgo})

\* the counts of a getDashboardStats call whose queries are still to execute
NoStats ==
  [total_tasks |-> 0, completed_tasks |-> 0, pending_tasks |-> 0, total_documents |-> 0,
   recent_activity_count |-> 0]

\* the inputs of the updateTask calls beside the counts: the status alone
CountRaceInputs ==
  [id : {"k1"}, title : {UNSET}, description : {UNSET}, status : {"pending", "completed"},
   priority : {UNSET}, due_date : {UNSET}]

\* one task of u1 is stored, pending as created or completed by an update
InitCounts ==
  /\ users = UserIds
  /\ profiles = [u \in UserIds |-> UserRow(u)]
  /\ aiAgents = {}
  /\ scope = "counts"
  /\ LET created == createTask({}, 0, "u1", [title |-> "t1", description |-> NULL,
                                             priority |-> "medium", due_date |-> NULL], "k1").table
     IN tasks \in {created,
                   updateTask(created, 0, "u1", [id |-> "k1", title |-> UNSET, description |-> UNSET,
                                                 status |-> "completed", priority |-> UNSET,
                                                 due_date |-> UNSET]).table}
  /\ documents = {}
  /\ chatMessages = {}
  /\ activityLog = {}
  /\ now = 0
  /\ last = Idle("none")
  /\ calls = NoCalls

StartGetDashboardStats(p) ==
  /\ scope = "counts"
  /\ \E c \in RaceCallers : StartCall(p, "getDashboardStats", c, "none")

StartCreateTask(p) ==
  /\ scope = "counts"
  /\ \E c \in RaceCallers, input \in SomeCreateTaskInputs : StartCall(p, "createTask", c, input)

StartUpdateStatus(p) ==
  /\ scope = "counts"
  /\ \E c \in RaceCallers, input \in CountRaceInputs : StartCall(p, "updateTask", c, input)

StartDeleteCounted(p) ==
  /\ scope = "counts"
  /\ \E c \in RaceCallers : StartCall(p, "deleteTask", c, "k1")

\* createTask: its one INSERT executes
CreateTaskInsert(p) ==
  LET c == calls[p]
      uuid == randomUUID(StatsTaskIds, tasks)
      r == createTask(tasks, now, c.user, c.input, uuid)
  IN /\ c.op = "createTask" /\ c.pc = "insert"
     /\ CanInsert(StatsTaskIds, tasks, 1)
     /\ tasks' = r.table
     /\ calls' = [calls EXCEPT ![p] = [FinishWrite(c, r, 1) EXCEPT !.t = now, !.ids = <<uuid>>]]
     /\ UNCHANGED <<users, profiles, aiAgents, documents, chatMessages, activityLog, now, scope,
                    last>>

\* getDashboardStats: the count of the user's tasks executes
CountTotalTasks(p) ==
  LET c == calls[p]
  IN /\ c.op = "getDashboardStats" /\ c.pc = "count1"
     /\ calls' = [calls EXCEPT ![p] =
                    [c EXCEPT !.pc = "count2", !.seen = WriteRank - 1,
                              !.rows = <<[NoStats EXCEPT !.total_tasks = countTasks(tasks, c.user)]>>]]
     /\ UNCHANGED <<users, profiles, aiAgents, tasks, documents, chatMessages, activityLog, now,
                    scope, last>>

\* getDashboardStats: the count of the user's completed tasks executes
CountCompletedTasks(p) ==
  LET c == calls[p]
  IN /\ c.op = "getDashboardStats" /\ c.pc = "count2"
     /\ calls' = [calls EXCEPT ![p] =
                    [c EXCEPT !.pc = "count3", !.between = WriteRank - 1 - c.seen,
                              !.rows = <<[c.rows[1] EXCEPT !.completed_tasks =
                                            countTasksWithStatus(tasks, c.user, "completed")]>>]]
     /\ UNCHANGED <<users, profiles, aiAgents, tasks, documents, chatMessages, activityLog, now,
                    scope, last>>

\* getDashboardStats: the count of the user's pending tasks executes
CountPendingTasks(p) ==
  LET c == calls[p]
  IN /\ c.op = "getDashboardStats" /\ c.pc = "count3"
     /\ calls' = [calls EXCEPT ![p] =
                    [c EXCEPT !.pc = "count4", !.between = WriteRank - 1 - c.seen,
                              !.rows = <<[c.rows[1] EXCEPT !.pending_tasks =
                                            countTasksWithStatus(tasks, c.user, "pending")]>>]]
     /\ UNCHANGED <<users, profiles, aiAgents, tasks, documents, chatMessages, activityLog, now,
                    scope, last>>

\* getDashboardStats: the count of the user's documents executes
CountDocuments(p) ==
  LET c == calls[p]
  IN /\ c.op = "getDashboardStats" /\ c.pc = "count4"
     /\ calls' = [calls EXCEPT ![p] =
                    [c EXCEPT !.pc = "build",
                              !.rows = <<[c.rows[1] EXCEPT !.total_documents =
                                            countDocuments(documents, c.user)]>>]]
     /\ UNCHANGED <<users, profiles, aiAgents, tasks, documents, chatMessages, activityLog, now,
                    scope, last>>

\* getDashboardStats: sevenDaysAgo is computed from new Date()
StatsBuild(p) ==
  LET c == calls[p]
  IN /\ c.op = "getDashboardStats" /\ c.pc = "build"
     /\ calls' = [calls EXCEPT ![p] = [c EXCEPT !.pc = "count5", !.t = now]]
     /\ UNCHANGED <<users, profiles, aiAgents, tasks, documents, chatMessages, activityLog, now,
                    scope, last>>

\* getDashboardStats: the count of the recent activity executes and the call returns
CountRecentActivity(p) ==
  LET c == calls[p]
      stats == [c.rows[1] EXCEPT !.recent_activity_count =
                  countRecentActivity(activityLog, c.user, c.t - WindowDays)]
  IN /\ c.op = "getDashboardStats" /\ c.pc = "count5"
     /\ calls' = [calls EXCEPT ![p] = Finish(c, Result(tasks, NoError, FALSE, <<stats>>))]
     /\ UNCHANGED <<users, profiles, aiAgents, tasks, documents, chatMessages, activityLog, now,
                    scope, last>>

\* a getDashboardStats call and a task write, or two of either, statement by statement
NextCounts ==
  \/ Tick
  \/ \E p \in Procs :
       \/ StartGetDashboardStats(p)
       \/ StartCreateTask(p)
       \/ StartUpdateStatus(p)
       \/ StartDeleteCounted(p)
       \/ CountTotalTasks(p)
       \/ CountCompletedTasks(p)
       \/ CountPendingTasks(p)
       \/ CountDocuments(p)
       \/ StatsBuild(p)
       \/ CountRecentActivity(p)
       \/ CreateTaskInsert(p)
       \/ UpdateTaskSelect(p)
       \/ UpdateTaskBuild(p)
       \/ UpdateTaskUpdate(p)
       \/ DeleteTaskDelete(p)

SpecCounts == InitCounts /\ [][NextCounts]_vars

\* ------------------------------------- sendMessage, by statement, store failing
\* the SELECT on usersTable
sendMessageSelectUser(userId) == {u \in users : u = userId}

\* the SELECT on aiAgentsTable
sendMessageSelectAgent(input) == {a \in aiAgents : a.id = input.agent_id}

\* mutant of sendMessageInsertUser: the user message is not saved
sendMessageInsertUserSkipped(T, t, userId, input, uuid) == T

\* the first INSERT: the user-authored row
sendMessageInsertUser(T, t, userId, input, uuid) ==
  T \cup {[id |-> uuid, user_id |-> userId, agent_id |-> input.agent_id,
            message |-> input.message, response |-> NULL,
            is_user_message |-> TRUE, created_at |-> t]}

\* the second INSERT ... RETURNING: the agent-authored row, and `return result[0]`
sendMessageInsertAgent(T, t, userId, input, uuid, aiResponse) ==
  LET aiRow == [id |-> uuid, user_id |-> userId, agent_id |-> input.agent_id,
                message |-> input.message, response |-> aiResponse,
                is_user_message |-> FALSE, created_at |-> t]
  IN Result(T \cup {aiRow}, NoError, FALSE, <<aiRow>>)

\* mutant of sendMessageCatch: the rows the call inserted are taken back
sendMessageCatchRollsBack(T, ids) ==
  Result({r \in T : \A i \in 1..Len(ids) : r.id # ids[i]}, StoreFailure, FALSE, <<>>)

\* the catch block when a statement failed: the error is logged and rethrown, the table
\* stays as the earlier statements left it
sendMessageCatch(T, ids) == Result(T, StoreFailure, FALSE, <<>>)

\* the positions of a sendMessage call at which a store statement is about to execute
SendMessagePcs == {"selectUser", "selectAgent", "insertUser", "insertAgent"}

\* the agents a sendMessage input may name: none, an active one, an inactive one
SendRaceInputs == [agent_id : {"a0", "a1", "a2"}, message : {"hello"}]

\* users and agents are stored, no chat row is, and no call has started
InitSend ==
  /\ users = UserIds
  /\ profiles = [u \in UserIds |-> UserRow(u)]
  /\ aiAgents = {[id |-> "a1", specialization |-> "productivity", is_active |-> TRUE],
                 [id |-> "a2", specialization |-> "document", is_active |-> FALSE]}
  /\ scope = "send"
  /\ tasks = {}
  /\ documents = {}
  /\ chatMessages = {}
  /\ activityLog = {}
  /\ now = 0
  /\ last = Idle("none")
  /\ calls = NoCalls

StartSendMessage(p) ==
  /\ scope = "send"
  /\ \E c \in Callers, input \in SendRaceInputs : StartCall(p, "sendMessage", c, input)

\* sendMessage: the user is looked up; the call throws when there is none
SendMessageSelectUser(p) ==
  LET c == calls[p]
  IN /\ c.op = "sendMessage" /\ c.pc = "selectUser"
     /\ calls' = [calls EXCEPT ![p] =
                    IF sendMessageSelectUser(c.user) = {}
                      THEN Finish(c, Result(chatMessages, Error("User with id not found", c.user),
                                            FALSE, <<>>))
                      ELSE [c EXCEPT !.pc = "selectAgent"]]
     /\ UNCHANGED <<users, profiles, aiAgents, tasks, documents, chatMessages, activityLog, now,
                    scope, last>>

\* sendMessage: the agent is looked up; the call throws when there is none or it is not active
SendMessageSelectAgent(p) ==
  LET c == calls[p]
      agent == sendMessageSelectAgent(c.input)
  IN /\ c.op = "sendMessage" /\ c.pc = "selectAgent"
     /\ calls' = [calls EXCEPT ![p] =
                    IF agent = {}
                      THEN Finish(c, Result(chatMessages,
                                            Error("AI agent with id not found", c.input.agent_id),
                                            FALSE, <<>>))
                    ELSE IF ~(CHOOSE a \in agent : TRUE).is_active
                      THEN Finish(c, Result(chatMessages,
                                            Error("AI agent with id is not active", c.input.agent_id),
                                            FALSE, <<>>))
                    ELSE [c EXCEPT !.pc = "insertUser"]]
     /\ UNCHANGED <<users, profiles, aiAgents, tasks, documents, chatMessages, activityLog, now,
                    scope, last>>

\* sendMessage: the user-authored row is inserted under a fresh uuid
SendMessageInsertUser(p) ==
  LET c == calls[p]
      userMessageId == randomUUID(ChatIds, chatMessages)
  IN /\ c.op = "sendMessage" /\ c.pc = "insertUser"
     /\ CanInsert(ChatIds, chatMessages, 1)
     /\ chatMessages' = sendMessageInsertUser(chatMessages, now, c.user, c.input, userMessageId)
     /\ calls' = [calls EXCEPT ![p] =
                    [c EXCEPT !.pc = "insertAgent", !.ids = <<userMessageId>>, !.matched = 1,
                              !.wrote = WriteRank, !.t = now]]
     /\ UNCHANGED <<users, profiles, aiAgents, tasks, documents, activityLog, now, scope, last>>

\* sendMessage: the response is generated, the agent-authored row is inserted under a
\* fresh uuid and returned
SendMessageInsertAgent(p) ==
  LET c == calls[p]
      aiMessageId == randomUUID(ChatIds, chatMessages)
  IN /\ c.op = "sendMessage" /\ c.pc = "insertAgent"
     /\ CanInsert(ChatIds, chatMessages, 1)
     /\ \E agent \in sendMessageSelectAgent(c.input) :
        \E aiResponse \in generateAIResponse(c.input.message, agent.specialization) :
          LET r == sendMessageInsertAgent(chatMessages, now, c.user, c.input, aiMessageId, aiResponse)
          IN /\ chatMessages' = r.table
             /\ calls' = [calls EXCEPT ![p] =
                            [Finish(c, r) EXCEPT !.ids = Append(c.ids, aiMessageId), !.matched = 2]]
     /\ UNCHANGED <<users, profiles, aiAgents, tasks, documents, activityLog, now, scope, last>>

\* sendMessage: the statement about to execute fails, the catch block rethrows
SendMessageFails(p) ==
  LET c == calls[p]
      r == sendMessageCatch(chatMessages, c.ids)
  IN /\ c.op = "sendMessage" /\ c.pc \in SendMessagePcs
     /\ chatMessages' = r.table
     /\ calls' = [calls EXCEPT ![p] = Finish(c, r)]
     /\ UNCHANGED <<users, profiles, aiAgents, tasks, documents, activityLog, now, scope, last>>

\* two sendMessage calls, statement by statement, any statement failing
NextSend ==
  \/ Tick
  \/ \E p \in Procs :
       \/ StartSendMessage(p)
       \/ SendMessageSelectUser(p)
       \/ SendMessageSelectAgent(p)
       \/ SendMessageInsertUser(p)
       \/ SendMessageInsertAgent(p)
       \/ SendMessageFails(p)

SpecSend == InitSend /\ [][NextSend]_vars

\* --------------------------------------- calls of two owners, by statement
\* connection p carries the calls of u1, connection q those of u2
Owner(p) == IF p = "p" THEN "u1" ELSE "u2"

\* the four tables as one value
Store ==
  [tasks |-> tasks, documents |-> documents, chatMessages |-> chatMessages,
   activityLog |-> activityLog]

\* the store the two owners start from: a task and a document each
OwnersStore ==
  LET taskInput == [title |-> "t1", description |-> NULL, priority |-> "medium", due_date |-> NULL]
      documentInput == [name |-> "n1", description |-> NULL, file_url |-> "https://files/f1",
                        file_type |-> "application/pdf", file_size |-> 1024, folder_path |-> NULL]
      k1 == createTask({}, 0, "u1", taskInput, "k1").table
      d1 == createDocument({}, 0, "u1", documentInput, "d1").table
  IN [tasks |-> createTask(k1, 0, "u2", taskInput, "k2").table,
      documents |-> createDocument(d1, 0, "u2", documentInput, "d2").table,
      chatMessages |-> {},
      activityLog |-> {}]

\* the inputs of the owners' calls: either owner's row may be named
OwnersTaskInputs ==
  [id : {"k1", "k2"}, title : {UNSET}, description : {UNSET}, status : {"completed"},
   priority : {UNSET}, due_date : {UNSET}]
OwnersDocumentInputs ==
  [id : {"d1", "d2"}, name : {"n2"}, description : {UNSET}, folder_path : {UNSET}]
OwnersCreateTaskInputs ==
  [title : {"t1"}, description : {NULL}, priority : {"high"}, due_date : {NULL}]
OwnersSendInputs == [agent_id : {"a1", "a2"}, message : {"hello"}]
OwnersHistoryInputs == [agent_id : {"a1"}, limit : {Omitted}]
OwnersLogInputs ==
  [action : {"task_created"}, description : {"Created a task"}, entityType : {"task"},
   entityId : {"k1"}]

InitOwners ==
  /\ users = UserIds
  /\ profiles = [u \in UserIds |-> UserRow(u)]
  /\ aiAgents = {[id |-> "a1", specialization |-> "productivity", is_active |-> TRUE],
                 [id |-> "a2", specialization |-> "document", is_active |-> FALSE]}
  /\ scope \in Scopes
  /\ tasks = OwnersStore.tasks
  /\ documents = OwnersStore.documents
  /\ chatMessages = OwnersStore.chatMessages
  /\ activityLog = OwnersStore.activityLog
  /\ now = 0
  /\ last = Idle("none")
  /\ calls = NoCalls

\* a call by the owner of connection p on the tables of this behaviour
StartOwnerCall(p) ==
  \/ /\ scope = "tasks"
     /\ \/ \E input \in OwnersCreateTaskInputs : StartCall(p, "createTask", Owner(p), input)
        \/ \E input \in OwnersTaskInputs : StartCall(p, "updateTask", Owner(p), input)
        \/ \E id \in {"k1", "k2"} : StartCall(p, "deleteTask", Owner(p), id)
        \/ StartCall(p, "getDashboardStats", Owner(p), "none")
  \/ /\ scope = "documents"
     /\ \/ \E input \in OwnersDocumentInputs : StartCall(p, "updateDocument", Owner(p), input)
        \/ \E id \in {"d1", "d2"} : StartCall(p, "deleteDocument", Owner(p), id)
        \/ \E folderPath \in {UNSET, NULL} : StartCall(p, "getDocuments", Owner(p), folderPath)
        \/ StartCall(p, "getDashboardStats", Owner(p), "none")
  \/ /\ scope = "chat"
     /\ \/ \E input \in OwnersSendInputs : StartCall(p, "sendMessage", Owner(p), input)
        \/ \E input \in OwnersHistoryInputs : StartCall(p, "getChatHistory", Owner(p), input)
  \/ /\ scope = "activity"
     /\ \/ \E input \in OwnersLogInputs : StartCall(p, "logActivity", Owner(p), input)
        \/ \E limit \in {Omitted, 1} : StartCall(p, "getRecentActivity", Owner(p), limit)
        \/ StartCall(p, "getDashboardStats", Owner(p), "none")

\* getDocuments: its one SELECT executes
GetDocumentsSelect(p) ==
  LET c == calls[p]
  IN /\ c.op = "getDocuments" /\ c.pc = "select"
     /\ \E r \in getDocuments(documents, c.user, c.input) :
          calls' = [calls EXCEPT ![p] = Finish(c, r)]
     /\ UNCHANGED <<users, profiles, aiAgents, tasks, documents, chatMessages, activityLog, now,
                    scope, last>>

\* getChatHistory: its one SELECT executes
GetChatHistorySelect(p) ==
  LET c == calls[p]
  IN /\ c.op = "getChatHistory" /\ c.pc = "select"
     /\ \E r \in getChatHistory(chatMessages, c.user, c.input.agent_id, c.input.limit) :
          calls' = [calls EXCEPT ![p] = Finish(c, r)]
     /\ UNCHANGED <<users, profiles, aiAgents, tasks, documents, chatMessages, activityLog, now,
                    scope, last>>

\* logActivity: its one INSERT executes
LogActivityInsert(p) ==
  LET c == calls[p]
      uuid == randomUUID(ActivityIds, activityLog)
      r == logActivity(activityLog, now, c.user, c.input, uuid)
  IN /\ c.op = "logActivity" /\ c.pc = "insert"
     /\ CanInsert(ActivityIds, activityLog, 1)
     /\ activityLog' = r.table
     /\ calls' = [calls EXCEPT ![p] = [FinishWrite(c, r, 1) EXCEPT !.t = now, !.ids = <<uuid>>]]
     /\ UNCHANGED <<users, profiles, aiAgents, tasks, documents, chatMessages, now, scope, last>>

\* getRecentActivity: its one SELECT executes
GetRecentActivitySelect(p) ==
  LET c == calls[p]
  IN /\ c.op = "getRecentActivity" /\ c.pc = "select"
     /\ \E r \in getRecentActivity(activityLog, c.user, c.input) :
          calls' = [calls EXCEPT ![p] = Finish(c, r)]
     /\ UNCHANGED <<users, profiles, aiAgents, tasks, documents, chatMessages, activityLog, now,
                    scope, last>>

\* a call of u1 and a call of u2, statement by statement
NextOwners ==
  \/ Tick
  \/ \E p \in Procs :
       \/ StartOwnerCall(p)
       \/ CreateTaskInsert(p)
       \/ UpdateTaskSelect(p)
       \/ UpdateTaskBuild(p)
       \/ UpdateTaskUpdate(p)
       \/ DeleteTaskDelete(p)
       \/ CountTotalTasks(p)
       \/ CountCompletedTasks(p)
       \/ CountPendingTasks(p)
       \/ CountDocuments(p)
       \/ StatsBuild(p)
       \/ CountRecentActivity(p)
       \/ UpdateDocumentBuild(p)
       \/ UpdateDocumentUpdate(p)
       \/ DeleteDocumentSelect(p)
       \/ DeleteDocumentDelete(p)
       \/ GetDocumentsSelect(p)
       \/ SendMessageSelectUser(p)
       \/ SendMessageSelectAgent(p)
       \/ SendMessageInsertUser(p)
       \/ SendMessageInsertAgent(p)
       \/ GetChatHistorySelect(p)
       \/ LogActivityInsert(p)
       \/ GetRecentActivitySelect(p)

SpecOwners == InitOwners /\ [][NextOwners]_vars

\* -------------------------------------------------------- type invariant
\* primary keys are unique in every table
PrimaryKeys ==
  /\ \A r, q \in tasks : r.id = q.id => r = q
  /\ \A r, q \in documents : r.id = q.id => r = q
  /\ \A r, q \in chatMessages : r.id = q.id => r = q
  /\ \A r, q \in activityLog : r.id = q.id => r = q

\* ------------------------------------------------------------------ claims
\* the errors updateTask / updateDocument reject with when no owned row matches
TaskDenied == Error("Task not found or access denied", "none")
DocumentDenied == Error("Document not found or access denied", "none")

\* C1: for a task or document row owned by A and any caller B # A: updateTask /
\* updateDocument by B with the row's id is rejected, deleteTask / deleteDocument by B
\* returns false, and either call leaves the table as it was; the update by A resolves
\* with the updated row, which is then the stored row of that id.
C1_OwnerScopedMutation ==
  /\ \A r \in tasks : \A input \in SomeUpdateTaskInputs : input.id = r.id =>
       /\ \A b \in Callers \ {r.user_id} :
            /\ updateTask(tasks, now, b, input).err # NoError
            /\ updateTask(tasks, now, b, input).table = tasks
            /\ deleteTask(tasks, b, r.id).flag = FALSE
            /\ deleteTask(tasks, b, r.id).table = tasks
       /\ LET a == updateTask(tasks, now, r.user_id, input)
          IN /\ a.err = NoError
             /\ Len(a.rows) = 1 /\ a.rows[1] \in a.table
             /\ a.rows[1].id = r.id /\ a.rows[1].user_id = r.user_id
  /\ \A r \in documents : \A input \in SomeUpdateDocumentInputs : input.id = r.id =>
       /\ \A b \in Callers \ {r.user_id} :
            /\ updateDocument(documents, now, b, input).err # NoError
            /\ updateDocument(documents, now, b, input).table = documents
            /\ deleteDocument(documents, b, r.id).flag = FALSE
            /\ deleteDocument(documents, b, r.id).table = documents
       /\ LET a == updateDocument(documents, now, r.user_id, input)
          IN /\ a.err = NoError
             /\ Len(a.rows) = 1 /\ a.rows[1] \in a.table
             /\ a.rows[1].id = r.id /\ a.rows[1].user_id = r.user_id
  /\ last.op \in {"updateTask", "updateDocument"} /\ last.err = NoError =>
       /\ last.rows[1].user_id = last.user
       /\ last.rows[1] \in tasks \cup documents

\* C1 witness: user B's updateTask on a task of user A was just rejected, the row is still there
C1_Witness ==
  /\ last.op = "updateTask" /\ last.err # NoError /\ last.user \in users
  /\ \E r \in tasks : r.id = last.id /\ r.user_id # last.user

\* C2: the outcome of updateTask / updateDocument (the thrown error) and of deleteTask /
\* deleteDocument (false) for a caller and an id is the same whether the store holds a row
\* of that id owned by someone else or no row of that id at all.
C2_NoExistenceLeak ==
  /\ \A r \in tasks : \A b \in Callers \ {r.user_id} :
       /\ \A input \in SomeUpdateTaskInputs : input.id = r.id =>
            LET there == updateTask(tasks, now, b, input)
                gone == updateTask(tasks \ {r}, now, b, input)
            IN /\ there.err = TaskDenied /\ gone.err = TaskDenied
               /\ there.rows = gone.rows /\ there.flag = gone.flag
       /\ LET there == deleteTask(tasks, b, r.id)
              gone == deleteTask(tasks \ {r}, b, r.id)
          IN /\ there.flag = FALSE /\ gone.flag = FALSE
             /\ there.err = gone.err /\ there.rows = gone.rows
  /\ \A r \in documents : \A b \in Callers \ {r.user_id} :
       /\ \A input \in SomeUpdateDocumentInputs : input.id = r.id =>
            LET there == updateDocument(documents, now, b, input)
                gone == updateDocument(documents \ {r}, now, b, input)
            IN /\ there.err = DocumentDenied /\ gone.err = DocumentDenied
               /\ there.rows = gone.rows /\ there.flag = gone.flag
       /\ LET there == deleteDocument(documents, b, r.id)
              gone == deleteDocument(documents \ {r}, b, r.id)
          IN /\ there.flag = FALSE /\ gone.flag = FALSE
             /\ there.err = gone.err /\ there.rows = gone.rows

\* C2 witness: an updateDocument was rejected on an id that exists under another owner,
\* while another id of the pool is held by no row
C2_Witness ==
  /\ last.op = "updateDocument" /\ last.err = DocumentDenied
  /\ \E r \in documents : r.id = last.id /\ r.user_id # last.user
  /\ \E id \in DocumentIds : \A r \in documents : r.id # id

\* the keys an update input may carry besides id
TaskUpdateKeys == {"title", "description", "status", "priority", "due_date"}
DocumentUpdateKeys == {"name", "description", "folder_path"}

\* C3: an updateTask / updateDocument by the owner writes every key present in the input
\* with the given value (null included, for description, due_date and folder_path) and
\* leaves every key absent from the input at its stored value.
C3_PartialUpdate ==
  /\ \A r \in tasks : \A input \in UpdateTaskInputs : input.id = r.id =>
       LET res == updateTask(tasks, now, r.user_id, input)
       IN /\ res.err = NoError
          /\ res.table = (tasks \ {r}) \cup {res.rows[1]}
          /\ \A k \in TaskUpdateKeys :
               res.rows[1][k] = IF input[k] = UNSET THEN r[k] ELSE input[k]
  /\ \A r \in documents : \A input \in UpdateDocumentInputs : input.id = r.id =>
       LET res == updateDocument(documents, now, r.user_id, input)
       IN /\ res.err = NoError
          /\ res.table = (documents \ {r}) \cup {res.rows[1]}
          /\ \A k \in DocumentUpdateKeys :
               res.rows[1][k] = IF input[k] = UNSET THEN r[k] ELSE input[k]

\* C3 witness: an updateTask has set description to null and the status on a row that
\* kept its title, priority and non-null due date
C3_Witness ==
  /\ last.op = "updateTask" /\ last.err = NoError
  /\ last.rows[1].description = NULL /\ last.rows[1].status = "completed"
  /\ last.rows[1].title = "t1" /\ last.rows[1].priority = "high"
  /\ last.rows[1].due_date = "due1"
  /\ last.rows[1] \in tasks

\* the update input that carries the id and nothing else
OnlyId(inputs, id) == {i \in inputs : i.id = id /\ \A k \in DOMAIN i : k # "id" => i[k] = UNSET}

\* C4 as stated: an owner's update carrying only the id changes only updated_at and
\* strictly increases it.
C4_Original ==
  /\ \A r \in tasks : \A input \in OnlyId(UpdateTaskInputs, r.id) :
       LET q == updateTask(tasks, now, r.user_id, input).rows[1]
       IN q = [r EXCEPT !.updated_at = q.updated_at] /\ q.updated_at > r.updated_at
  /\ \A r \in documents : \A input \in OnlyId(UpdateDocumentInputs, r.id) :
       LET q == updateDocument(documents, now, r.user_id, input).rows[1]
       IN q = [r EXCEPT !.updated_at = q.updated_at] /\ q.updated_at > r.updated_at

\* C4 amended: an owner's update carrying only the id changes only updated_at, which it
\* sets to the time of the call: never less than the value it replaces, and greater
\* exactly when the clock has advanced since the row was last written.
C4_EmptyUpdate ==
  /\ \A r \in tasks : \A input \in OnlyId(UpdateTaskInputs, r.id) :
       LET res == updateTask(tasks, now, r.user_id, input)
           q == res.rows[1]
       IN /\ res.err = NoError /\ res.table = (tasks \ {r}) \cup {q}
          /\ q = [r EXCEPT !.updated_at = now]
          /\ q.updated_at >= r.updated_at
          /\ (q.updated_at > r.updated_at) = (now > r.updated_at)
  /\ \A r \in documents : \A input \in OnlyId(UpdateDocumentInputs, r.id) :
       LET res == updateDocument(documents, now, r.user_id, input)
           q == res.rows[1]
       IN /\ res.err = NoError /\ res.table = (documents \ {r}) \cup {q}
          /\ q = [r EXCEPT !.updated_at = now]
          /\ q.updated_at >= r.updated_at
          /\ (q.updated_at > r.updated_at) = (now > r.updated_at)

\* C4 witness: an updateDocument has left a row with a later updated_at and every
\* created value (name, description, folder) in place
C4_Witness ==
  /\ last.op = "updateDocument" /\ last.err = NoError
  /\ last.rows[1].updated_at > last.rows[1].created_at
  /\ last.rows[1].name = "n1" /\ last.rows[1].description = "d1"
  /\ last.rows[1].folder_path = "work"
  /\ last.rows[1] \in documents

\* C5: deleteTask / deleteDocument removes exactly the rows (at most one) whose id and
\* user_id both match and no other row, never throws, returns true exactly when a row was
\* removed, and the same call made again right after returns false and removes nothing.
C5_Delete ==
  /\ \A c \in Callers, id \in TaskIds :
       LET res == deleteTask(tasks, c, id)
           again == deleteTask(res.table, c, id)
       IN /\ res.err = NoError
          /\ tasks \ res.table = {r \in tasks : r.id = id /\ r.user_id = c}
          /\ res.table \subseteq tasks
          /\ Cardinality(tasks \ res.table) <= 1
          /\ res.flag = (res.table # tasks)
          /\ again.flag = FALSE /\ again.err = NoError /\ again.table = res.table
  /\ \A c \in Callers, id \in DocumentIds :
       LET res == deleteDocument(documents, c, id)
           again == deleteDocument(res.table, c, id)
       IN /\ res.err = NoError
          /\ documents \ res.table = {r \in documents : r.id = id /\ r.user_id = c}
          /\ res.table \subseteq documents
          /\ Cardinality(documents \ res.table) <= 1
          /\ res.flag = (res.table # documents)
          /\ again.flag = FALSE /\ again.err = NoError /\ again.table = res.table
  /\ last.op = "deleteTask" /\ last.flag => \A r \in tasks : r.id # last.id
  /\ last.op = "deleteDocument" /\ last.flag => \A r \in documents : r.id # last.id

\* C5 witness: a deleteTask returned true and the other task is still stored
C5_Witness ==
  /\ last.op = "deleteTask" /\ last.flag = TRUE
  /\ \E r \in tasks : r.id # last.id

\* what createTask / createDocument copy from the input
CreateTaskKeys == {"title", "description", "priority", "due_date"}
CreateDocumentKeys == {"name", "description", "file_url", "file_type", "file_size", "folder_path"}

\* C6 (state part): createTask / createDocument by an existing user adds exactly one row,
\* owned by the caller, with a generated id no other row has and the fields of the input;
\* a created task has status pending.
C6_CreateAddsOneRow ==
  /\ PrimaryKeys
  /\ CanInsert(TaskIds, tasks, 1) =>
       \A c \in users, input \in SomeCreateTaskInputs :
         LET res == createTask(tasks, now, c, input, randomUUID(TaskIds, tasks))
             row == res.rows[1]
         IN /\ res.err = NoError
            /\ res.table = tasks \cup {row} /\ row \notin tasks
            /\ row.user_id = c /\ row.status = "pending"
            /\ \A q \in tasks : q.id # row.id
            /\ \A k \in CreateTaskKeys : row[k] = input[k]
  /\ CanInsert(DocumentIds, documents, 1) =>
       \A c \in users, input \in SomeCreateDocumentInputs :
         LET res == createDocument(documents, now, c, input, randomUUID(DocumentIds, documents))
             row == res.rows[1]
         IN /\ res.err = NoError
            /\ res.table = documents \cup {row} /\ row \notin documents
            /\ row.user_id = c
            /\ \A q \in documents : q.id # row.id
            /\ \A k \in CreateDocumentKeys : row[k] = input[k]
  /\ last.op = "createTask" /\ last.err = NoError =>
       last.rows[1] \in tasks /\ last.rows[1].status = "pending" /\ last.rows[1].user_id = last.user

\* C6 (step part): a stored task has a status other than pending only if it had that
\* status before the step, or the step is a successful updateTask on it whose input
\* carried that status.
C6_StatusOnlyByUpdate ==
  \A r \in tasks' : r.status # "pending" =>
    \/ \E q \in tasks : q.id = r.id /\ q.status = r.status
    \/ /\ last'.op = "updateTask" /\ last'.err = NoError /\ last'.id = r.id
       /\ \E input \in SomeUpdateTaskInputs :
            /\ input.id = r.id /\ input.status = r.status
            /\ tasks' = updateTask(tasks, now, last'.user, input).table

\* C6: createTask / createDocument add exactly one fresh row that carries the input, a
\* created task is pending, and only a successful updateTask carrying a status makes a
\* task's status differ from pending.
C6_Create == []C6_CreateAddsOneRow /\ [][C6_StatusOnlyByUpdate]_vars

\* C6 witness: a createTask has just added a second, pending task next to one that an
\* updateTask had completed
C6_Witness ==
  /\ last.op = "createTask" /\ last.err = NoError
  /\ last.rows[1] \in tasks /\ last.rows[1].status = "pending"
  /\ \E r \in tasks : r.id # last.id /\ r.status = "completed"

\* C7 as stated: createTask and createDocument for a caller that is no user are rejected
\* with an owner-not-found error whose message embeds the caller id.
C7_Original ==
  last.op \in {"createTask", "createDocument"} /\ last.user \notin users =>
    last.err.msg = "User with ID not found" /\ last.err.id = last.user

\* C7 amended: for a caller that is no user, createDocument is rejected with its own
\* 'User with ID <id> not found' error, which embeds the caller id, and createTask with
\* the store's foreign-key violation as the store raised it (createTask looks up no user);
\* neither inserts a row.
C7_MissingOwner ==
  /\ \A c \in Callers \ users :
       /\ \A input \in SomeCreateTaskInputs, id \in TaskIds :
            LET res == createTask(tasks, now, c, input, id)
            IN /\ res.err = Error("violates foreign key constraint", "none")
               /\ res.table = tasks /\ res.rows = <<>>
       /\ \A input \in SomeCreateDocumentInputs, id \in DocumentIds :
            LET res == createDocument(documents, now, c, input, id)
            IN /\ res.err = Error("User with ID not found", c)
               /\ res.table = documents /\ res.rows = <<>>
  /\ \A r \in tasks \cup documents : r.user_id \in users
  /\ last.op = "createTask" /\ last.user \notin users =>
       last.err = Error("violates foreign key constraint", "none")
  /\ last.op = "createDocument" /\ last.user \notin users =>
       last.err = Error("User with ID not found", last.user)

\* C7 witness: a createTask by a caller that is no user was rejected by the foreign key
\* while the table holds a row
C7_Witness ==
  /\ last.op = "createTask" /\ last.user \notin users
  /\ last.err.msg = "violates foreign key constraint"
  /\ tasks # {}

\* the rows of a returned list, as a set
Range(seq) == {seq[i] : i \in 1..Len(seq)}

\* the rows a list handler may return for the caller
TasksOf(c) == {r \in tasks : r.user_id = c}
DocumentsOf(c) == {r \in documents : r.user_id = c}
HistoryOf(c, a) == {r \in chatMessages : r.user_id = c /\ r.agent_id = a}
ActivityOf(c) == {r \in activityLog : r.user_id = c}

\* C8: every row getTasks, getDocuments, getChatHistory and getRecentActivity return is a
\* stored row whose user_id is the caller (and, for getChatHistory, whose agent_id is the
\* requested agent); a caller without rows, or a caller id that is no user, gets an empty
\* list.
C8_ListsAreOwnerScoped ==
  /\ \A c \in Callers :
       /\ \A res \in getTasks(tasks, c) :
            Range(res.rows) = TasksOf(c) /\ res.err = NoError /\ res.table = tasks
       /\ \A f \in FolderPaths : \A res \in getDocuments(documents, c, f) :
            Range(res.rows) \subseteq DocumentsOf(c) /\ res.err = NoError
       /\ \A a \in AgentIds, l \in Limits : \A res \in getChatHistory(chatMessages, c, a, l) :
            Range(res.rows) \subseteq HistoryOf(c, a) /\ res.err = NoError
       /\ \A l \in Limits : \A res \in getRecentActivity(activityLog, c, l) :
            Range(res.rows) \subseteq ActivityOf(c) /\ res.err = NoError
       /\ getTasks(tasks, c) # {} /\ getRecentActivity(activityLog, c, Omitted) # {}
  /\ \A c \in Callers \ users :
       /\ \A res \in getTasks(tasks, c) : res.rows = <<>>
       /\ \A f \in FolderPaths : \A res \in getDocuments(documents, c, f) : res.rows = <<>>
       /\ \A a \in AgentIds, l \in Limits : \A res \in getChatHistory(chatMessages, c, a, l) :
            res.rows = <<>>
       /\ \A l \in Limits : \A res \in getRecentActivity(activityLog, c, l) : res.rows = <<>>
  /\ last.op \in {"getTasks", "getDocuments", "getChatHistory", "getRecentActivity"} =>
       /\ \A i \in 1..Len(last.rows) : last.rows[i].user_id = last.user
       /\ last.op = "getChatHistory" => \A i \in 1..Len(last.rows) : last.rows[i].agent_id = last.id
       /\ TasksOf(last.user) \cup DocumentsOf(last.user) \cup ActivityOf(last.user)
            \cup {r \in chatMessages : r.user_id = last.user} = {} => last.rows = <<>>

\* C8 witness: getDocuments returned rows of the caller while the table also holds a
\* row of another user
C8_Witness ==
  /\ last.op = "getDocuments" /\ last.arg = "work" /\ Len(last.rows) = 1
  /\ \E r \in documents : r.user_id # last.user /\ r.folder_path = "work"

\* a list is in strictly decreasing created_at order
NewestFirst(seq) == \A i, j \in 1..Len(seq) : i < j => seq[i].created_at > seq[j].created_at

\* the rows of a set have pairwise distinct created_at
DistinctCreatedAt(S) == \A r, q \in S : r.created_at = q.created_at => r = q

\* C9: when the rows a list handler selects have pairwise distinct created_at, getTasks,
\* getDocuments, getChatHistory and getRecentActivity return them in strictly decreasing
\* created_at order.
C9_NewestFirst ==
  /\ \A c \in Callers :
       /\ DistinctCreatedAt(TasksOf(c)) => \A res \in getTasks(tasks, c) : NewestFirst(res.rows)
       /\ DistinctCreatedAt(DocumentsOf(c)) =>
            \A f \in FolderPaths : \A res \in getDocuments(documents, c, f) : NewestFirst(res.rows)
       /\ \A a \in AgentIds : DistinctCreatedAt(HistoryOf(c, a)) =>
            \A l \in Limits : \A res \in getChatHistory(chatMessages, c, a, l) :
              NewestFirst(res.rows)
       /\ DistinctCreatedAt(ActivityOf(c)) =>
            \A l \in Limits : \A res \in getRecentActivity(activityLog, c, l) :
              NewestFirst(res.rows)
  /\ last.op = "getTasks" /\ DistinctCreatedAt(TasksOf(last.user)) => NewestFirst(last.rows)
  /\ last.op = "getRecentActivity" /\ DistinctCreatedAt(ActivityOf(last.user)) =>
       NewestFirst(last.rows)

\* C9 witness: getRecentActivity returned three rows created at three different times
C9_Witness ==
  /\ last.op = "getRecentActivity" /\ Len(last.rows) = 3
  /\ DistinctCreatedAt(ActivityOf(last.user))
  /\ last.rows[1].created_at > last.rows[3].created_at

\* the smaller of two numbers
Min(a, b) == IF a < b THEN a ELSE b

\* `rows` are `n` of the newest rows of S, or all of S when S has fewer
NewestOf(rows, S, n) ==
  /\ Len(rows) = Min(n, Cardinality(S))
  /\ Range(rows) \subseteq S /\ Cardinality(Range(rows)) = Len(rows)
  /\ \A r \in Range(rows), q \in S \ Range(rows) : r.created_at >= q.created_at

FolderOf(c, f) ==
  CASE f = UNSET -> DocumentsOf(c)
    [] f = NULL -> {r \in DocumentsOf(c) : r.folder_path = NULL}
    [] OTHER -> {r \in DocumentsOf(c) : r.folder_path = f}

\* C11: getDocuments(owner, folderPath) returns all of the owner's documents when
\* folderPath is omitted, exactly the owner's documents with folder_path null when it is
\* null, and exactly the owner's documents with that folder_path when it is a string.
C11_FolderFilter ==
  /\ \A c \in Callers, f \in FolderPaths \cup {"home"} :
       \A res \in getDocuments(documents, c, f) :
         /\ Range(res.rows) = FolderOf(c, f)
         /\ Len(res.rows) = Cardinality(FolderOf(c, f))
  /\ last.op = "getDocuments" =>
       /\ Range(last.rows) = FolderOf(last.user, last.arg)
       /\ Len(last.rows) = Cardinality(FolderOf(last.user, last.arg))

\* C11 witness: getDocuments(owner, null) returned the one root document of an owner who
\* also has a document in "work"
C11_Witness ==
  /\ last.op = "getDocuments" /\ last.arg = NULL /\ Len(last.rows) = 1
  /\ \E r \in DocumentsOf(last.user) : r.folder_path = "work"

\* C12 as stated: a document with folder_path null is returned only under the filter
\* null (not with the filter omitted, not under "work"), and a document with folder_path
\* "work" only under the filter "work".
C12_Original ==
  \A r \in documents, f \in FolderPaths : \A res \in getDocuments(documents, r.user_id, f) :
    r \in Range(res.rows) => f = (IF r.folder_path = NULL THEN NULL ELSE r.folder_path)

\* C12: a document with folder_path null is returned to its owner under the filter null
\* and when the filter is omitted, and not under "work"; a document with folder_path
\* "work" is returned under "work" and when the filter is omitted, and not under null.
C12_FolderOfDocument ==
  \A r \in documents, f \in FolderPaths : \A res \in getDocuments(documents, r.user_id, f) :
    r \in Range(res.rows) <=>
      \/ f = UNSET
      \/ f = (IF r.folder_path = NULL THEN NULL ELSE r.folder_path)

\* C12 witness: getDocuments with the filter omitted returned a document whose
\* folder_path is null
C12_Witness ==
  /\ last.op = "getDocuments" /\ last.arg = UNSET
  /\ \E i \in 1..Len(last.rows) : last.rows[i].folder_path = NULL

\* the one record getDashboardStats resolves with
StatsOf(c) == getDashboardStats(tasks, documents, activityLog, now, c).rows[1]

\* the number of the owner's tasks with a status
TasksWith(c, status) == Cardinality({r \in TasksOf(c) : r.status = status})

\* C13: getDashboardStats(owner) returns total_tasks = the owner's tasks, completed_tasks
\* = those with status completed, pending_tasks = those with status pending (in_progress
\* tasks count in neither), total_documents = the owner's documents; other owners' rows
\* are not counted and an owner without rows gets 0 everywhere.
C13_DashboardCounts ==
  /\ \A c \in Callers :
       /\ StatsOf(c).total_tasks = Cardinality(TasksOf(c))
       /\ StatsOf(c).completed_tasks = TasksWith(c, "completed")
       /\ StatsOf(c).pending_tasks = TasksWith(c, "pending")
       /\ StatsOf(c).total_tasks =
            StatsOf(c).completed_tasks + StatsOf(c).pending_tasks + TasksWith(c, "in_progress")
       /\ StatsOf(c).total_documents = Cardinality(DocumentsOf(c))
       /\ TasksOf(c) \cup DocumentsOf(c) \cup ActivityOf(c) = {} =>
            StatsOf(c) = [total_tasks |-> 0, completed_tasks |-> 0, pending_tasks |-> 0,
                          total_documents |-> 0, recent_activity_count |-> 0]
       /\ getDashboardStats(tasks, documents, activityLog, now, c).err = NoError
  /\ last.op = "getDashboardStats" =>
       /\ last.rows[1].total_tasks = Cardinality(TasksOf(last.user))
       /\ last.rows[1].pending_tasks = TasksWith(last.user, "pending")

\* C13 witness: an owner with one completed, one pending and one in_progress task, while
\* another owner has a task too, got total_tasks 3, completed_tasks 1, pending_tasks 1
C13_Witness ==
  /\ last.op = "getDashboardStats"
  /\ last.rows[1].total_tasks = 3 /\ last.rows[1].completed_tasks = 1
  /\ last.rows[1].pending_tasks = 1 /\ last.rows[1].total_documents = 1
  /\ TasksWith(last.user, "in_progress") = 1
  /\ \E r \in tasks : r.user_id # last.user

\* C14: recent_activity_count is the number of the owner's activity rows that are at most
\* 7 days old at the call: a row 10 days old is not counted, a row 3 days old and a row
\* exactly 7 days old are.
C14_ActivityWindow ==
  /\ \A c \in Callers :
       StatsOf(c).recent_activity_count =
         Cardinality({r \in ActivityOf(c) : now - r.created_at <= 7})
  /\ \A r \in activityLog :
       /\ now - r.created_at \in {3, 7} => StatsOf(r.user_id).recent_activity_count >= 1
       /\ (\A q \in ActivityOf(r.user_id) : now - q.created_at >= 8) =>
            StatsOf(r.user_id).recent_activity_count = 0
  /\ last.op = "getDashboardStats" =>
       last.rows[1].recent_activity_count =
         Cardinality({r \in ActivityOf(last.user) : now - r.created_at <= 7})

\* C14 witness: the owner has rows 10, 7 and 3 days old and got recent_activity_count 2
C14_Witness ==
  /\ last.op = "getDashboardStats" /\ last.rows[1].recent_activity_count = 2
  /\ {now - r.created_at : r \in ActivityOf(last.user)} = {10, 7, 3}

\* the agent rows with an id
AgentsWith(id) == {a \in aiAgents : a.id = id}

\* C15: sendMessage rejects with a user-not-found error when the caller is no user, else
\* with an agent-not-found error when no agent has the id, else with a different
\* agent-not-active error when the agent is inactive; the agent errors name the agent id,
\* and in each case the chat table is left as it was.
C15_SendMessageRejects ==
  /\ \A c \in Callers, input \in SendMessageInputs, t2 \in {now, now + 1} :
       LET r == sendMessage(chatMessages, now, t2, c, input, <<"m1", "m2">>, "text")
       IN /\ c \notin users =>
               r.err = Error("User with id not found", c) /\ r.table = chatMessages
          /\ c \in users /\ AgentsWith(input.agent_id) = {} =>
               /\ r.err = Error("AI agent with id not found", input.agent_id)
               /\ r.table = chatMessages
          /\ c \in users /\ (\E a \in AgentsWith(input.agent_id) : ~a.is_active) =>
               /\ r.err = Error("AI agent with id is not active", input.agent_id)
               /\ r.table = chatMessages
          /\ r.err # NoError => r.rows = <<>>
          /\ r.err = NoError <=>
               c \in users /\ \E a \in AgentsWith(input.agent_id) : a.is_active
  /\ last.op = "sendMessage" /\ last.err # NoError =>
       /\ last.user \notin users => last.err.msg = "User with id not found"
       /\ last.user \in users => last.err.id = last.id
       /\ \A r \in chatMessages : ~(r.user_id = last.user /\ r.agent_id = last.id)

\* C15 witness: a user's sendMessage to the inactive agent was rejected and no row of
\* that user and agent exists
C15_Witness ==
  /\ last.op = "sendMessage" /\ last.user \in users
  /\ last.err = Error("AI agent with id is not active", "a2")
  /\ chatMessages # {}

\* C16: a successful sendMessage(owner, {agent_id, message}) adds exactly two rows with
\* that user_id, agent_id and message: first one with is_user_message true and response
\* null, then one with is_user_message false and a response that is not null; it resolves
\* with the second.
C16_SendMessagePair ==
  /\ CanInsert(ChatIds, chatMessages, 2) =>
       \A c \in users, input \in SendMessageInputs, t2 \in {now, now + 1} :
       \A a \in AgentsWith(input.agent_id) :
       \A aiResponse \in generateAIResponse(input.message, a.specialization) :
         LET m1 == randomUUID(ChatIds, chatMessages)
             m2 == randomUUID(ChatIds \ {m1}, chatMessages)
             r == sendMessage(chatMessages, now, t2, c, input, <<m1, m2>>, aiResponse)
             added == r.table \ chatMessages
         IN a.is_active =>
              /\ r.err = NoError /\ chatMessages \subseteq r.table
              /\ Cardinality(added) = 2
              /\ \A x \in added : /\ x.user_id = c /\ x.agent_id = input.agent_id
                                  /\ x.message = input.message
              /\ \E x, y \in added :
                   /\ x.is_user_message /\ x.response = NULL
                   /\ ~y.is_user_message /\ y.response # NULL /\ y.response = aiResponse
                   /\ x.created_at <= y.created_at /\ x.id # y.id
                   /\ r.rows = <<y>>
  /\ last.op = "sendMessage" /\ last.err = NoError =>
       /\ Len(last.rows) = 1 /\ last.rows[1] \in chatMessages
       /\ ~last.rows[1].is_user_message /\ last.rows[1].response # NULL
       /\ \E x \in chatMessages :
            /\ x.is_user_message /\ x.response = NULL /\ x.id # last.rows[1].id
            /\ x.user_id = last.user /\ x.agent_id = last.id
            /\ x.message = last.rows[1].message /\ x.created_at <= last.rows[1].created_at

\* C16 witness: the second exchange of a user with an agent was saved and the agent row
\* was returned
C16_Witness ==
  /\ last.op = "sendMessage" /\ last.err = NoError
  /\ Cardinality(HistoryOf(last.user, last.id)) = 4
  /\ ~last.rows[1].is_user_message

\* every row of the four referencing tables
ReferencingRows == tasks \cup documents \cup chatMessages \cup activityLog

\* C17: the user_id of every task, document, chat and activity row is the id of an
\* existing user; an insert naming a missing user is rejected and adds nothing; after a
\* user is deleted no row references it.
C17_UserReference ==
  /\ \A r \in ReferencingRows : r.user_id \in users
  /\ users = DOMAIN profiles
  /\ \A c \in Callers \ users :
       /\ \A input \in SomeCreateTaskInputs :
            LET r == createTask(tasks, now, c, input, "k1")
            IN r.err # NoError /\ r.table = tasks
       /\ \A input \in SomeCreateDocumentInputs :
            LET r == createDocument(documents, now, c, input, "d1")
            IN r.err # NoError /\ r.table = documents
       /\ \A input \in LogActivityInputs :
            LET r == logActivity(activityLog, now, c, input, "l1")
            IN r.err # NoError /\ r.table = activityLog
       /\ \A input \in SendMessageInputs :
            LET r == sendMessage(chatMessages, now, now, c, input, <<"m1", "m2">>, "text")
            IN r.err # NoError /\ r.table = chatMessages
  /\ last.op = "deleteUser" =>
       /\ last.user \notin users
       /\ \A r \in ReferencingRows : r.user_id # last.user

\* C17 witness: a user was deleted and its task k1 went with it (k1 is the first id
\* handed out and nothing else deletes tasks here), while task k2 of the other user remains
C17_Witness ==
  /\ last.op = "deleteUser" /\ Cardinality(users) = 1
  /\ {r.id : r \in tasks} = {"k2"}

\* a run r of handler op whose k-th query was to fail: the queries issued are the
\* first ones of the plan, none after the k-th, none twice; the run rejects with the
\* failure exactly when it got as far as the k-th query, and then returns nothing
StopsAtFailure(r, op, k) ==
  /\ Len(r.queries) <= k
  /\ r.queries = SubSeq(QueryPlan(op), 1, Len(r.queries))
  /\ (r.err = StoreFailure) <=> (Len(r.queries) = k)
  /\ r.err = StoreFailure => r.rows = <<>> /\ ~r.flag

\* C18: when a query of a handler fails, the handler rejects with that error and issues
\* no further query: the failed query is not issued again and no later step runs, so
\* what the earlier queries wrote, and nothing else, is in the store.
C18_FailureIsFinal ==
  /\ \A c \in Callers, input \in SomeCreateTaskInputs :
       LET r == createTaskStore(tasks, now, c, input, "k9", 1)
           fk == createTaskStore(tasks, now, c, input, "k9", 0)
       IN /\ StopsAtFailure(r, "createTask", 1) /\ r.table = tasks
          /\ c \notin users =>
               /\ fk.err = Error("violates foreign key constraint", "none")
               /\ fk.table = tasks /\ fk.queries = QueryPlan("createTask")
  /\ \A c \in Callers, input \in SomeUpdateTaskInputs, k \in 1..2 :
       LET r == updateTaskStore(tasks, now, c, input, k)
       IN /\ StopsAtFailure(r, "updateTask", k) /\ r.table = tasks
          /\ r.err # StoreFailure => r.err = TaskDenied
  /\ \A c \in Callers, input \in SomeCreateDocumentInputs, k \in 1..2 :
       LET r == createDocumentStore(documents, now, c, input, "d9", k)
       IN StopsAtFailure(r, "createDocument", k) /\ r.table = documents
  /\ \A c \in Callers, id \in DocumentIds, k \in 1..2 :
       LET r == deleteDocumentStore(documents, c, id, k)
       IN StopsAtFailure(r, "deleteDocument", k) /\ r.table = documents
  /\ \A c \in Callers, input \in SendMessageInputs, k \in 1..4 :
       LET r == sendMessageStore(chatMessages, now, now, c, input, <<"m8", "m9">>, "text", k)
       IN /\ StopsAtFailure(r, "sendMessage", k)
          /\ k < 4 \/ r.err # StoreFailure => r.table = chatMessages
          /\ k = 4 /\ r.err = StoreFailure =>
               /\ chatMessages \subseteq r.table
               /\ Cardinality(r.table \ chatMessages) = 1
               /\ \A x \in r.table \ chatMessages : x.is_user_message /\ x.id = "m8"
  /\ last.op \in {"createTask", "updateTask", "createDocument", "deleteDocument", "sendMessage"}
       /\ last.arg # 0 => StopsAtFailure(last, last.op, last.arg)

\* C18 witness: the second INSERT of sendMessage failed; four queries were issued, the call
\* rejected with the failure, and the user row of the first INSERT has no agent row after it
C18_Witness ==
  /\ last.op = "sendMessage" /\ last.arg = 4 /\ last.err = StoreFailure
  /\ Len(last.queries) = 4
  /\ Cardinality(chatMessages) = 1

\* the agents whose is_active is true
ActiveAgents == {a \in aiAgents : a.is_active}

\* C19: getAIAgents returns exactly the active agents: each of them once, no inactive
\* one, and nothing when no agent is active.
C19_ActiveAgentsOnly ==
  /\ getAIAgents(aiAgents) # {}
  /\ \A res \in getAIAgents(aiAgents) :
       /\ res.err = NoError
       /\ Range(res.rows) = ActiveAgents
       /\ Len(res.rows) = Cardinality(ActiveAgents)
       /\ \A i \in 1..Len(res.rows) : res.rows[i].is_active
       /\ (\A a \in aiAgents : ~a.is_active) => res.rows = <<>>
  /\ last.op = "getAIAgents" =>
       Range(last.rows) = ActiveAgents /\ Len(last.rows) = Cardinality(ActiveAgents)

\* C19 witness: getAIAgents returned the two active agents while a third agent is inactive
C19_Witness ==
  /\ last.op = "getAIAgents" /\ Len(last.rows) = 2
  /\ \E a \in aiAgents : ~a.is_active

\* the value a column holds after an update: the input's when present, else the old one
Written(input, old) == IF input = UNSET THEN old ELSE input

\* C20: updateUserProfile(userId, input) writes first_name, last_name and
\* profile_picture_url exactly where the input has them (an explicit null clears the
\* picture), sets updated_at to the time of the call, leaves id, email, created_at and
\* every other user's row alone; for an id that is no user it fails with an error naming
\* the id and changes nothing.
C20_ProfileUpdate ==
  /\ \A c \in Callers, input \in UpdateUserProfileInputs :
       LET r == updateUserProfile(profiles, now, c, input)
       IN /\ c \in users =>
               /\ r.err = NoError /\ DOMAIN r.table = DOMAIN profiles
               /\ r.rows = <<r.table[c]>>
               /\ r.table[c].first_name = Written(input.first_name, profiles[c].first_name)
               /\ r.table[c].last_name = Written(input.last_name, profiles[c].last_name)
               /\ r.table[c].profile_picture_url =
                    Written(input.profile_picture_url, profiles[c].profile_picture_url)
               /\ input.profile_picture_url = NULL => r.table[c].profile_picture_url = NULL
               /\ r.table[c].updated_at = now /\ r.table[c].updated_at >= profiles[c].updated_at
               /\ r.table[c].id = c /\ r.table[c].email = profiles[c].email
               /\ r.table[c].created_at = profiles[c].created_at
               /\ \A u \in users \ {c} : r.table[u] = profiles[u]
          /\ c \notin users =>
               /\ r.err = Error("User with id not found", c)
               /\ r.table = profiles /\ r.rows = <<>>
  /\ last.op = "updateUserProfile" =>
       IF last.user \in users
         THEN /\ last.err = NoError /\ last.rows = <<profiles[last.user]>>
              /\ profiles[last.user].updated_at = now
              /\ \A u \in users : profiles[u].id = u /\ profiles[u].created_at = 0
         ELSE last.err.id = last.user /\ last.rows = <<>>

\* C20 witness: an update with only profile_picture_url, explicitly null, returned the
\* row with the picture cleared, the first_name of an earlier update kept, and a later
\* updated_at
C20_Witness ==
  /\ last.op = "updateUserProfile" /\ last.err = NoError
  /\ last.arg = [first_name |-> UNSET, last_name |-> UNSET, profile_picture_url |-> NULL]
  /\ last.rows[1].profile_picture_url = NULL /\ last.rows[1].first_name = "f1"
  /\ last.rows[1].updated_at = 2
  /\ \E u \in users : profiles[u].profile_picture_url # NULL

\* the store statements of the handlers, as positions of a call
StatementPcs == {"select", "update", "delete"}

\* the call has passed its ownership check and its write statement is still to execute:
\* only updateTask has such a position, updateDocument checks within its one UPDATE
PastCheck(c) == c.op = "updateTask" /\ c.pc \in {"build", "update"}

\* C21: updateTask and updateDocument check the owner and write in one atomic statement:
\* once a call has checked the owner, no statement of another call executes before its
\* write has executed.
C21_CheckAndWriteAtomic ==
  [][\A p \in Procs : \A q \in Procs \ {p} :
       PastCheck(calls[p]) /\ calls[q].pc \in StatementPcs => calls'[q] = calls[q]]_vars

\* C22: an updateTask call overlapping a deleteTask of the same row by the owner ends
\* rejected with 'Task not found or access denied' or resolved with the updated row; it
\* never resolves when its UPDATE matched no row.
C22_UpdateOrReject ==
  \A p \in Procs :
    LET c == calls[p]
    IN c.op = "updateTask" /\ c.pc = "done" =>
         \/ c.err = TaskDenied
         \/ c.err = NoError /\ c.matched > 0 /\ c.rows[1].id = c.input.id

\* the two calls have returned, and p's write statement executed before q's
BothDone(p, q) ==
  /\ calls[p].pc = "done" /\ calls[q].pc = "done"
  /\ calls[p].wrote < calls[q].wrote

\* both calls are updates by the owner of the stored row
OwnerUpdates(p, q, op) ==
  /\ calls[p].op = op /\ calls[q].op = op
  /\ calls[p].user = "u1" /\ calls[q].user = "u1"

\* C24: two overlapping updates by the owner of a row that write the same field both
\* succeed, and the field then holds the value of the update statement that executed
\* last.
C24_LastWriteWins ==
  \A p \in Procs : \A q \in Procs \ {p} :
    /\ calls[p].pc = "done" /\ calls[q].pc = "done" /\ OwnerUpdates(p, q, "updateTask")
          /\ calls[p].input.title # UNSET /\ calls[q].input.title # UNSET =>
         /\ calls[p].err = NoError /\ calls[q].err = NoError
         /\ calls[p].matched = 1 /\ calls[q].matched = 1
         /\ calls[p].wrote < calls[q].wrote =>
              {r.title : r \in tasks} = {calls[q].input.title}
    /\ calls[p].pc = "done" /\ calls[q].pc = "done" /\ OwnerUpdates(p, q, "updateDocument")
          /\ calls[p].input.name # UNSET /\ calls[q].input.name # UNSET =>
         /\ calls[p].err = NoError /\ calls[q].err = NoError
         /\ calls[p].matched = 1 /\ calls[q].matched = 1
         /\ calls[p].wrote < calls[q].wrote =>
              {r.name : r \in documents} = {calls[q].input.name}

\* C24 witness: p read the clock later than q and wrote title 'ta' first; q's UPDATE
\* executed last and the stored title is q's 'tb'
C24_Witness ==
  /\ BothDone("p", "q") /\ OwnerUpdates("p", "q", "updateTask")
  /\ calls["p"].input.title = "ta" /\ calls["q"].input.title = "tb"
  /\ calls["p"].t > calls["q"].t
  /\ \E r \in tasks : r.title = "tb"

\* C25: two overlapping updates by the owner of a row that set disjoint fields both take
\* effect: in every interleaving each named field holds the value its call supplied.
C25_NoLostUpdate ==
  \A p \in Procs : \A q \in Procs \ {p} :
    /\ BothDone(p, q) /\ OwnerUpdates(p, q, "updateTask")
          /\ calls[p].input.title # UNSET /\ calls[q].input.status # UNSET =>
         /\ calls[p].err = NoError /\ calls[q].err = NoError
         /\ {<<r.title, r.status>> : r \in tasks} = {<<calls[p].input.title, calls[q].input.status>>}
    /\ BothDone(p, q) /\ OwnerUpdates(p, q, "updateTask")
          /\ calls[p].input.status # UNSET /\ calls[q].input.title # UNSET =>
         /\ calls[p].err = NoError /\ calls[q].err = NoError
         /\ {<<r.title, r.status>> : r \in tasks} = {<<calls[q].input.title, calls[p].input.status>>}
    /\ BothDone(p, q) /\ OwnerUpdates(p, q, "updateDocument")
          /\ calls[p].input.name # UNSET /\ calls[q].input.description # UNSET =>
         /\ calls[p].err = NoError /\ calls[q].err = NoError
         /\ {<<r.name, r.description>> : r \in documents}
              = {<<calls[p].input.name, calls[q].input.description>>}
    /\ BothDone(p, q) /\ OwnerUpdates(p, q, "updateDocument")
          /\ calls[p].input.description # UNSET /\ calls[q].input.name # UNSET =>
         /\ calls[p].err = NoError /\ calls[q].err = NoError
         /\ {<<r.name, r.description>> : r \in documents}
              = {<<calls[q].input.name, calls[p].input.description>>}

\* C25 witness: p set the status and q, whose SELECT ran before p's UPDATE, then set the
\* title; the row holds both
C25_Witness ==
  /\ BothDone("p", "q") /\ OwnerUpdates("p", "q", "updateTask")
  /\ calls["p"].input.status = "completed" /\ calls["q"].input.title = "ta"
  /\ calls["q"].seen = 0
  /\ \E r \in tasks : r.status = "completed" /\ r.title = "ta"

\* C27: of two overlapping deletes by the owner of the one stored row (two deleteTask
\* calls, or two deleteDocument calls, which select before they delete) exactly one
\* returns true, the other false, and the row is removed once.
C27_OneDeleteWins ==
  \A p \in Procs : \A q \in Procs \ {p} :
    /\ calls[p].pc = "done" /\ calls[q].pc = "done" /\ OwnerUpdates(p, q, "deleteTask") =>
         /\ calls[p].flag # calls[q].flag
         /\ calls[p].err = NoError /\ calls[q].err = NoError
         /\ calls[p].matched + calls[q].matched = 1
         /\ tasks = {}
    /\ calls[p].pc = "done" /\ calls[q].pc = "done" /\ OwnerUpdates(p, q, "deleteDocument") =>
         /\ calls[p].flag # calls[q].flag
         /\ calls[p].err = NoError /\ calls[q].err = NoError
         /\ {calls[p].matched, calls[q].matched} \in {{1, 0}, {1, Omitted}}
         /\ documents = {}

\* C27 witness: both deleteDocument calls selected the row before either deleted it; q's
\* DELETE then matched no row and q returned false
C27_Witness ==
  /\ BothDone("p", "q") /\ OwnerUpdates("p", "q", "deleteDocument")
  /\ calls["p"].matched = 1 /\ calls["q"].matched = 0
  /\ calls["p"].flag /\ ~calls["q"].flag

\* the call on connection p is an update whose UPDATE statement executes in this step
UpdateExecutes(p) ==
  /\ calls[p].op \in {"updateTask", "updateDocument"}
  /\ calls[p].pc = "update" /\ calls'[p].pc = "done"

\* C29 as stated: with a clock that never goes backwards, no write of updateTask or
\* updateDocument, in any sequence or interleaving, leaves updated_at below the value
\* it replaced.
C29_Original ==
  [][\A r \in tasks \cup documents : \A w \in tasks' \cup documents' :
       w.id = r.id => w.updated_at >= r.updated_at]_vars

\* C29, amended: each UPDATE stores the time its call read on the clock when it built
\* updateData, which is not later than the time the statement executes; updated_at does
\* not decrease unless another write statement executed between that reading and the
\* UPDATE.
C29_UpdatedAtIsClockRead ==
  [][\A p \in Procs : UpdateExecutes(p) =>
       /\ calls[p].t <= now
       /\ \A w \in tasks' \cup documents' :
            w.id = calls[p].input.id /\ w.user_id = calls[p].user => w.updated_at = calls[p].t
       /\ calls[p].seen = WriteRank - 1 =>
            \A r \in tasks \cup documents : \A w \in tasks' \cup documents' :
              w.id = r.id => w.updated_at >= r.updated_at]_vars

\* C29 witness: p built its updateData after q did and its UPDATE executed first; q's
\* UPDATE then stored q's earlier reading, below the updated_at it replaced
C29_Witness ==
  /\ BothDone("p", "q") /\ OwnerUpdates("p", "q", "updateDocument")
  /\ calls["q"].seen = 0 /\ calls["q"].t < calls["p"].t
  /\ \E r \in documents : r.updated_at = calls["q"].t

\* the counts a getDashboardStats call has taken so far
StatsSoFar(p) == calls[p].rows[1]

\* C28 as stated: every getDashboardStats result has completed_tasks + pending_tasks <=
\* total_tasks, also when createTask / updateTask / deleteTask statements of the same
\* owner execute between its count queries.
C28_Original ==
  \A p \in Procs :
    calls[p].op = "getDashboardStats" /\ calls[p].pc = "done" =>
      StatsSoFar(p).completed_tasks + StatsSoFar(p).pending_tasks <= StatsSoFar(p).total_tasks

\* C28, amended: a getDashboardStats result has completed_tasks + pending_tasks <=
\* total_tasks when no write statement executed between its three counts of tasksTable.
C28_CountsOfOneState ==
  \A p \in Procs :
    /\ calls[p].op = "getDashboardStats" /\ calls[p].pc \in {"count4", "build", "count5", "done"}
    /\ calls[p].between = 0
    => StatsSoFar(p).completed_tasks + StatsSoFar(p).pending_tasks <= StatsSoFar(p).total_tasks

\* C28 witness: q's createTask INSERT executed after p's three task counts, which saw the
\* one pending task of u1
C28_Witness ==
  /\ calls["p"].op = "getDashboardStats" /\ calls["p"].pc = "done" /\ calls["p"].user = "u1"
  /\ calls["p"].seen = 0 /\ calls["p"].between = 0
  /\ calls["q"].op = "createTask" /\ calls["q"].user = "u1" /\ calls["q"].wrote = 1
  /\ StatsSoFar("p").total_tasks = 1 /\ StatsSoFar("p").pending_tasks = 1

\* the chat rows of one user, agent and message text, by author
UserRows(u, a, msg) ==
  {r \in chatMessages : /\ r.user_id = u /\ r.agent_id = a /\ r.message = msg
                         /\ r.is_user_message /\ r.response = NULL}
AgentRows(u, a, msg) ==
  {r \in chatMessages : /\ r.user_id = u /\ r.agent_id = a /\ r.message = msg
                         /\ ~r.is_user_message}

\* C23: the two INSERTs of sendMessage run in sequence without a transaction: when the
\* second fails the call rejects and the user-authored row of the first stays stored,
\* with no agent-authored row of that call (no rollback).
C23_NoRollback ==
  [][\A p \in Procs :
       calls[p].op = "sendMessage" /\ calls[p].pc = "insertAgent" /\ calls'[p].pc = "done"
         /\ calls'[p].err = StoreFailure =>
           /\ calls'[p].rows = <<>>
           /\ chatMessages' = chatMessages
           /\ Len(calls'[p].ids) = 1
           /\ \E r \in chatMessages' :
                /\ r.id = calls[p].ids[1] /\ r.is_user_message /\ r.response = NULL
                /\ r.user_id = calls[p].user /\ r.message = calls[p].input.message
           /\ Cardinality(AgentRows(calls[p].user, calls[p].input.agent_id, calls[p].input.message))
                < Cardinality(UserRows(calls[p].user, calls[p].input.agent_id,
                                       calls[p].input.message))]_vars

\* C23 witness: p's second INSERT failed while q ran no statement: the one stored row is
\* p's user-authored row
C23_Witness ==
  /\ calls["p"].op = "sendMessage" /\ calls["p"].pc = "done" /\ calls["p"].err = StoreFailure
  /\ calls["p"].wrote = 1 /\ calls["q"].pc = "idle"
  /\ \E r \in chatMessages : r.id = calls["p"].ids[1] /\ r.is_user_message
  /\ Cardinality(chatMessages) = 1

\* C30: whatever sendMessage calls ran, failed or overlapped, for every user, agent and
\* message text there are at most as many agent-authored rows as user-authored rows.
C30_AgentRowsArePaired ==
  \A u \in Callers, a \in {r.agent_id : r \in chatMessages}, msg \in {r.message : r \in chatMessages} :
    Cardinality(AgentRows(u, a, msg)) <= Cardinality(UserRows(u, a, msg))

\* C30 witness: two overlapping calls of u1 to a1 with the same text; p returned its agent
\* row, q's second INSERT failed: one agent-authored row, two user-authored rows
C30_Witness ==
  /\ calls["p"].op = "sendMessage" /\ calls["p"].pc = "done" /\ calls["p"].err = NoError
  /\ calls["q"].op = "sendMessage" /\ calls["q"].pc = "done" /\ calls["q"].err = StoreFailure
  /\ calls["q"].wrote = 1 /\ calls["p"].wrote = 2
  /\ Cardinality(AgentRows("u1", "a1", "hello")) = 1
  /\ Cardinality(UserRows("u1", "a1", "hello")) = 2

\* the outcome r of a handler run alone on the store S, r.table replacing table `name`
Ran(S, name, r) ==
  [store |-> [S EXCEPT ![name] = r.table], err |-> r.err, flag |-> r.flag, rows |-> r.rows]

\* the outcomes of the call c run alone, as one step, on the store S, with the clock
\* values and uuids the call drew
Alone(c, S) ==
  CASE c.op = "createTask" ->
         {Ran(S, "tasks", createTask(S.tasks, c.t, c.user, c.input, c.ids[1]))}
    [] c.op = "updateTask" ->
         {Ran(S, "tasks", updateTask(S.tasks, c.t, c.user, c.input))}
    [] c.op = "deleteTask" ->
         {Ran(S, "tasks", deleteTask(S.tasks, c.user, c.input))}
    [] c.op = "getDashboardStats" ->
         {Ran(S, "tasks", getDashboardStats(S.tasks, S.documents, S.activityLog, c.t, c.user))}
    [] c.op = "updateDocument" ->
         {Ran(S, "documents", updateDocument(S.documents, c.t, c.user, c.input))}
    [] c.op = "deleteDocument" ->
         {Ran(S, "documents", deleteDocument(S.documents, c.user, c.input))}
    [] c.op = "getDocuments" ->
         {Ran(S, "documents", r) : r \in getDocuments(S.documents, c.user, c.input)}
    [] c.op = "sendMessage" ->
         IF c.rows = <<>>
           THEN {Ran(S, "chatMessages",
                     sendMessage(S.chatMessages, 0, 0, c.user, c.input, <<"m1", "m2">>, NULL))}
           ELSE {Ran(S, "chatMessages",
                     sendMessage(S.chatMessages, c.t, c.rows[1].created_at, c.user, c.input,
                                 c.ids, c.rows[1].response))}
    [] c.op = "getChatHistory" ->
         {Ran(S, "chatMessages", r) :
            r \in getChatHistory(S.chatMessages, c.user, c.input.agent_id, c.input.limit)}
    [] c.op = "logActivity" ->
         {Ran(S, "activityLog", logActivity(S.activityLog, c.t, c.user, c.input, c.ids[1]))}
    [] c.op = "getRecentActivity" ->
         {Ran(S, "activityLog", r) : r \in getRecentActivity(S.activityLog, c.user, c.input)}

\* the call c returned what the run r returned
Returned(c, r) == c.err = r.err /\ c.flag = r.flag /\ c.rows = r.rows

\* the two calls returned, and left the store, as when `first` runs alone on the initial
\* store and `second` runs alone after it
SameAsSequential(first, second) ==
  \E r1 \in Alone(calls[first], OwnersStore) :
    /\ Returned(calls[first], r1)
    /\ \E r2 \in Alone(calls[second], r1.store) :
         /\ Returned(calls[second], r2)
         /\ r2.store = Store

\* C26: a call by owner u1 and a call by owner u2 are independent: in every interleaving
\* of their statements both return, and the store ends, as when the two calls run one
\* after the other, in either order.
C26_OwnersIndependent ==
  calls["p"].pc = "done" /\ calls["q"].pc = "done" =>
    SameAsSequential("p", "q") /\ SameAsSequential("q", "p")

\* C26 witness: u1's updateTask selected and read the clock before u2's createTask
\* inserted, and its UPDATE executed after it
C26_Witness ==
  /\ calls["p"].pc = "done" /\ calls["q"].pc = "done"
  /\ calls["p"].op = "updateTask" /\ calls["p"].input.id = "k1" /\ calls["p"].err = NoError
  /\ calls["q"].op = "createTask"
  /\ calls["p"].seen = 0 /\ calls["q"].wrote = 1 /\ calls["p"].wrote = 2
  /\ Cardinality(tasks) = 3

====
